---- MODULE Spec2Model ----
(***************************************************************************)
(* CRYPTA: the WebCrypto vault (lib/cryptoVault), the encrypted storage    *)
(* layer (lib/storage) and the VaultProvider (contexts/VaultContext).      *)
(*                                                                         *)
(* Execution model: one JavaScript event loop.  Every step below is the    *)
(* code that runs between two awaits of a WebCrypto operation; WebCrypto   *)
(* operations that are in flight complete in any order.                    *)
(*                                                                         *)
(* Cryptography is modelled symbolically.  A key is the pair (passphrase,  *)
(* salt) it is derived from; a ciphertext records the key it was made      *)
(* with and its plaintext; AES-GCM decryption succeeds exactly when the    *)
(* key is the one the ciphertext was made with.  The random IV is not      *)
(* represented.                                                            *)
(***************************************************************************)
EXTENDS Integers, Sequences, FiniteSets, TLC

\* ------------------------------------------------------------------ bounds
\* API calls (createVault, unlock, lock, setSecureData) made in one behaviour
MaxCalls == 5

\* ------------------------------------------------------- program constants
MIN_PASSPHRASE_LENGTH == 8
SCHEMA_VERSION == 1

\* ------------------------------------------------------------ storage keys
VAULT_META_KEY == "crypta_vault_meta"
VAULT_CHECK_KEY == "crypta_vault_check"

WALLETS == "crypta_wallets"
TRANSACTIONS == "crypta_transactions"
SNAPSHOTS == "crypta_snapshots"
PROVIDER_CONFIGS == "crypta_provider_configs"
SETTINGS == "crypta_settings"
ONBOARDING_COMPLETE == "crypta_onboarding"
HIDDEN_ASSETS == "crypta_hidden_assets"
SPAM_ASSETS == "crypta_spam_assets"

\* Keys that are encrypted, in the order initializeSecureStorage visits them
ENCRYPTED_KEYS == <<WALLETS, TRANSACTIONS, SNAPSHOTS, PROVIDER_CONFIGS>>

EncryptedKeySet == {ENCRYPTED_KEYS[i] : i \in 1..Len(ENCRYPTED_KEYS)}

PlainKeySet == {SETTINGS, ONBOARDING_COMPLETE, HIDDEN_ASSETS, SPAM_ASSETS}

StorageKeySet == {VAULT_META_KEY, VAULT_CHECK_KEY} \cup EncryptedKeySet \cup PlainKeySet

\* ------------------------------------------------------------- JSON values
\* A list that passes the key's zod array schema
List(items) == [j |-> "list", items |-> items]
\* A JSON value that fails every array schema (a number, a malformed item..)
Malformed == [j |-> "malformed"]
\* { schemaVersion, data }
Versioned(sv, data) == [j |-> "versioned", schemaVersion |-> sv, data |-> data]
\* the createVault sentinel { ok, t }
Sentinel(ok) == [j |-> "sentinel", ok |-> ok]
\* VaultMetaV1; only the salt varies (iterations and algorithm are fixed)
Meta(salt) == [j |-> "meta", v |-> 1, salt |-> salt]

\* ------------------------------------------------- localStorage item values
\* localStorage.getItem -> null
Null == [t |-> "null"]
\* a string that is JSON text of `val` (and not an encrypted payload)
Json(val) == [t |-> "json", val |-> val]
\* a string that is not JSON at all
Garbage == [t |-> "garbage"]
\* JSON text of an EncryptedPayloadV1 {v:1, iv, ct}, made with `key` from `pt`
Payload(key, pt) == [t |-> "payload", key |-> key, pt |-> pt]

\* ------------------------------------------------------------ cryptography
\* faulty variant: the derived key does not depend on the passphrase
deriveAesKey_IgnoresPassphrase(passphrase, meta) == [pass |-> "", salt |-> meta.salt]

\* importPassphrase + deriveAesKey: PBKDF2 of the passphrase under meta.salt
deriveAesKey(passphrase, meta) == [pass |-> passphrase, salt |-> meta.salt]

\* encryptWithKey / encryptJson: AES-GCM under `key`
encrypt(data, key) == Payload(key, data)

\* faulty variant: decryption succeeds under any key
decrypt_AnyKey(payload, key) ==
    IF payload.t = "payload"
    THEN [ok |-> TRUE, pt |-> payload.pt]
    ELSE [ok |-> FALSE, pt |-> Malformed]

\* crypto.subtle.decrypt + JSON.parse: rejects unless the key is the one used
decrypt(payload, key) ==
    IF payload.t = "payload" /\ payload.key = key
    THEN [ok |-> TRUE, pt |-> payload.pt]
    ELSE [ok |-> FALSE, pt |-> Malformed]

\* ----------------------------------------------------------- schema layer
\* getSchemaInfo(key).defaultValue for the four encrypted keys
defaultValue == List(<<>>)

\* getSchemaInfo(key).schema: safeParse of the key's zod array schema
schemaOk(v) == v.j = "list"

isVersionedObject(v) == v.j = "versioned"

normalizePersisted(rawValue) ==
    IF isVersionedObject(rawValue)
    THEN IF ~schemaOk(rawValue.data)
         THEN [data |-> defaultValue, shouldPersist |-> TRUE]
         ELSE IF rawValue.schemaVersion # SCHEMA_VERSION
              THEN [data |-> rawValue.data, shouldPersist |-> TRUE]
              ELSE [data |-> rawValue.data, shouldPersist |-> FALSE]
    ELSE IF schemaOk(rawValue)
         THEN [data |-> rawValue, shouldPersist |-> TRUE]
         ELSE [data |-> defaultValue, shouldPersist |-> TRUE]

wrapVersioned(data) == Versioned(SCHEMA_VERSION, data)

isVaultPayloadString(raw) == raw.t = "payload"

\* ------------------------------------------------------------------- state
VARIABLES
    localStorage,   \* window.localStorage: storage key -> item
    _vault,         \* storage.ts: the unlocked vault, or Null
    _secureCache,   \* storage.ts: encrypted key -> cached plaintext, or Absent
    vault,          \* VaultProvider state `vault` (isUnlocked == vault # Null)
    error,          \* VaultProvider state `error`
    creating,       \* createVault calls awaiting the sentinel encryption
    unlocking,      \* the VaultProvider.unlock call in flight, or Idle
    encrypting,     \* fire-and-forget encryptions awaiting crypto.subtle.encrypt
    ret,            \* the most recent API call and what it returned or threw
    created,        \* history: passphrase of the createVault that completed last
    nCalls,         \* API calls made so far; also the source of fresh salts
    \* lib/cost-basis, one call of calculateCostBasis
    transactions,   \* the argument `transactions`
    method,         \* the argument `method`
    sortedTx,       \* const sortedTx
    pos,            \* transactions of sortedTx the `for` loop has processed
    lotsByAsset,    \* const lotsByAsset: asset -> lots, in creation order
    sales,          \* const sales
    totalGains,     \* let totalGains
    totalLosses,    \* let totalLosses
    result,         \* what the call returned, or NoResult
    previous,       \* what the call before this one returned, or NoResult
    \* lib/cost-basis, filterTaxResultsByYear
    taxYear,        \* the argument `year`
    yearResult,     \* what the latest call returned or threw, or NoResult
    filterCalls,    \* calls of filterTaxResultsByYear made so far
    \* lib/backup
    exporting,      \* createEncryptedBackup calls awaiting encryptJson
    restoring,      \* restoreEncryptedBackup calls awaiting decryptJson
    backupFiles,    \* history: the files createEncryptedBackup has returned
    restored,       \* the latest restoreEncryptedBackup that settled, or NoRestore
    \* VaultProvider auto-lock effect
    now,            \* Date.now()
    lastActivity,   \* lastActivityRef.current
    lastEvent,      \* lastEventRef.current
    nextTick,       \* when the setInterval callback runs next, or NoTimer
    \* a call of a synchronous function of lib/storage or lib/cost-basis
    callArgs,       \* the arguments of the call
    callResult,     \* what the call returned, or NoResult
    \* ApiRateLimiter
    queue,          \* this.queue, as the sequence of the requests' numbers
    processing,     \* this.processing
    queueLoop,      \* where the processQueue loop stands
    cooling,        \* less than delayMs has passed since lastRequestTime
    requests        \* the request objects: state, retryCount, executions

vaultVars == <<localStorage, _vault, _secureCache, vault, error, creating, unlocking,
               encrypting, ret, created, nCalls>>
engineVars == <<transactions, method, sortedTx, pos, lotsByAsset, sales, totalGains,
                totalLosses, result, previous, taxYear, yearResult, filterCalls>>
backupVars == <<exporting, restoring, backupFiles, restored>>
timerVars == <<now, lastActivity, lastEvent, nextTick>>
callVars == <<callArgs, callResult>>
limiterVars == <<queue, processing, queueLoop, cooling, requests>>
otherVars == <<timerVars, callVars, limiterVars>>
vars == <<vaultVars, engineVars, backupVars, otherVars>>

\* Map.has(key) = false
Absent == [j |-> "absent"]
EmptyCache == [k \in EncryptedKeySet |-> Absent]
Idle == [pc |-> "idle"]
NoError == "null"

\* sets the inputs are drawn from
Passphrases == {"passphrase-A", "passphrase-B", "short", ""}
Items == {1, 2}
WriteValues == {List(<<i>>) : i \in Items}
WriteKeys == {WALLETS, TRANSACTIONS}

isUnlocked == vault # Null
isVaultReady == _vault # Null

\* ------------------------------------------------------------ storage reads
Returned(v) == [threw |-> FALSE, value |-> v]
Thrown(e) == [threw |-> TRUE, value |-> e]

\* getSecureData(key, defaultValue) in the current state
getSecureData(key) ==
    LET raw == localStorage[key] IN
    IF raw = Null THEN Returned(defaultValue)
    ELSE IF key \in EncryptedKeySet
         THEN IF ~isVaultReady THEN Thrown("VaultLockedError")
              ELSE IF _secureCache[key] # Absent
                   THEN Returned(_secureCache[key])
                   ELSE Returned(defaultValue)
         ELSE IF raw.t = "json" THEN Returned(raw.val) ELSE Returned(defaultValue)

\* --------------------------------------------------------------- createVault
\* faulty variant: the meta is stored before the passphrase is checked
createVault_MetaBeforeCheck(passphrase) ==
    /\ UNCHANGED <<engineVars, backupVars, otherVars>>
    /\ nCalls < MaxCalls
    /\ nCalls' = nCalls + 1
    /\ localStorage' = [localStorage EXCEPT ![VAULT_META_KEY] = Json(Meta(nCalls + 1))]
    /\ IF Len(passphrase) < MIN_PASSPHRASE_LENGTH
       THEN /\ ret' = [op |-> "createVault", arg |-> passphrase, res |-> "Error"]
            /\ UNCHANGED <<creating, created>>
       ELSE /\ creating' = creating \cup {[pass |-> passphrase, meta |-> Meta(nCalls + 1)]}
            /\ created' = "none"
            /\ ret' = [op |-> "createVault", arg |-> passphrase, res |-> "pending"]
    /\ UNCHANGED <<_vault, _secureCache, vault, error, unlocking, encrypting>>

\* createVault up to `await encryptJson`: the passphrase check, the new meta
createVault(passphrase) ==
    /\ UNCHANGED <<engineVars, backupVars, otherVars>>
    /\ nCalls < MaxCalls
    /\ nCalls' = nCalls + 1
    /\ IF Len(passphrase) < MIN_PASSPHRASE_LENGTH
       THEN /\ ret' = [op |-> "createVault", arg |-> passphrase, res |-> "Error"]
            /\ UNCHANGED <<localStorage, creating, created>>
       ELSE LET meta == Meta(nCalls + 1) IN
            /\ localStorage' = [localStorage EXCEPT ![VAULT_META_KEY] = Json(meta)]
            /\ creating' = creating \cup {[pass |-> passphrase, meta |-> meta]}
            /\ created' = "none"
            /\ ret' = [op |-> "createVault", arg |-> passphrase, res |-> "pending"]
    /\ UNCHANGED <<_vault, _secureCache, vault, error, unlocking, encrypting>>

\* createVault after `await encryptJson`: the sentinel is stored
createVaultSentinel(c) ==
    /\ UNCHANGED <<engineVars, backupVars, otherVars>>
    /\ c \in creating
    /\ creating' = creating \ {c}
    /\ localStorage' = [localStorage EXCEPT ![VAULT_CHECK_KEY] =
            encrypt(Sentinel(TRUE), deriveAesKey(c.pass, c.meta))]
    /\ created' = c.pass
    /\ ret' = [op |-> "createVault", arg |-> c.pass, res |-> "ok"]
    /\ UNCHANGED <<_vault, _secureCache, vault, error, unlocking, encrypting,
                   nCalls>>

\* ------------------------------------------------- fire-and-forget encryption
\* faulty variant: the data is encrypted without its versioned wrapper
scheduleEncrypt_Unwrapped(tasks, key, data, v) ==
    IF v = Null THEN tasks
    ELSE tasks \cup {[key |-> key, pt |-> data, vkey |-> v.key]}

\* `void (async () => { if (!_vault) return; await encryptWithKey(...); ... })()`
\* up to the await: the plaintext and the key are taken now
scheduleEncrypt(tasks, key, data, v) ==
    IF v = Null THEN tasks
    ELSE tasks \cup {[key |-> key, pt |-> wrapVersioned(data), vkey |-> v.key]}

\* ... after the await: localStorage.setItem(key, JSON.stringify(payload))
encryptDone(task) ==
    /\ UNCHANGED <<engineVars, backupVars, otherVars>>
    /\ task \in encrypting
    /\ encrypting' = encrypting \ {task}
    /\ localStorage' = [localStorage EXCEPT ![task.key] = encrypt(task.pt, task.vkey)]
    /\ UNCHANGED <<_vault, _secureCache, vault, error, creating, unlocking, ret,
                   created, nCalls>>

\* --------------------------------------------------- initializeSecureStorage
\* The `for (const key of ENCRYPTED_KEYS)` loop from index i up to the next
\* `await decryptWithKey` (or the end of the loop).  `gv` is the module's _vault
\* while this runs.  idx is the index of the key whose payload is being
\* decrypted, Len(ENCRYPTED_KEYS) + 1 when the loop is over.
RECURSIVE initLoop(_, _, _, _)
initLoop(i, cache, tasks, gv) ==
    IF i > Len(ENCRYPTED_KEYS) THEN [cache |-> cache, tasks |-> tasks, idx |-> i]
    ELSE LET key == ENCRYPTED_KEYS[i]
             raw == localStorage[key]
         IN  IF raw = Null THEN initLoop(i + 1, cache, tasks, gv)
             ELSE IF ~isVaultPayloadString(raw)
             THEN IF raw.t = "json"
                  THEN LET normalized == normalizePersisted(raw.val) IN
                       initLoop(i + 1,
                                [cache EXCEPT ![key] = normalized.data],
                                scheduleEncrypt(tasks, key, normalized.data, gv),
                                gv)
                  ELSE initLoop(i + 1, cache, tasks, gv)
             ELSE [cache |-> cache, tasks |-> tasks, idx |-> i]

\* What follows one run of the loop: either the next await, or initialize
\* returns and VaultProvider.unlock goes on: setVault(unlocked), return true
initContinue(run, unlocked, passphrase) ==
    /\ _secureCache' = run.cache
    /\ encrypting' = run.tasks
    /\ IF run.idx > Len(ENCRYPTED_KEYS)
       THEN /\ unlocking' = Idle
            /\ vault' = unlocked
            /\ ret' = [op |-> "unlock", arg |-> passphrase, res |-> "true"]
       ELSE /\ unlocking' = [pc |-> "init", pass |-> passphrase, vault |-> unlocked,
                             idx |-> run.idx,
                             payload |-> localStorage[ENCRYPTED_KEYS[run.idx]]]
            /\ UNCHANGED <<vault, ret>>

\* faulty variant: a decryption failure ends the loop instead of the iteration
initDecrypted_AbortOnFailure ==
    /\ UNCHANGED <<engineVars, backupVars, otherVars>>
    /\ unlocking.pc = "init"
    /\ LET key == ENCRYPTED_KEYS[unlocking.idx]
           dec == decrypt(unlocking.payload, unlocking.vault.key)
           normalized == normalizePersisted(dec.pt)
           cache1 == IF dec.ok THEN [_secureCache EXCEPT ![key] = normalized.data]
                     ELSE _secureCache
           tasks1 == IF dec.ok /\ normalized.shouldPersist
                     THEN scheduleEncrypt(encrypting, key, normalized.data, _vault)
                     ELSE encrypting
           next == IF dec.ok THEN unlocking.idx + 1 ELSE Len(ENCRYPTED_KEYS) + 1
       IN  initContinue(initLoop(next, cache1, tasks1, _vault),
                        unlocking.vault, unlocking.pass)
    /\ UNCHANGED <<localStorage, _vault, error, creating, created, nCalls>>

\* initializeSecureStorage after `await decryptWithKey(payload, vault)` of one key
initDecrypted ==
    /\ UNCHANGED <<engineVars, backupVars, otherVars>>
    /\ unlocking.pc = "init"
    /\ LET key == ENCRYPTED_KEYS[unlocking.idx]
           dec == decrypt(unlocking.payload, unlocking.vault.key)
           normalized == normalizePersisted(dec.pt)
           cache1 == IF dec.ok THEN [_secureCache EXCEPT ![key] = normalized.data]
                     ELSE _secureCache
           tasks1 == IF dec.ok /\ normalized.shouldPersist
                     THEN scheduleEncrypt(encrypting, key, normalized.data, _vault)
                     ELSE encrypting
       IN  initContinue(initLoop(unlocking.idx + 1, cache1, tasks1, _vault),
                        unlocking.vault, unlocking.pass)
    /\ UNCHANGED <<localStorage, _vault, error, creating, created, nCalls>>

\* ------------------------------------------------------ VaultProvider.unlock
\* unlock's catch + finally: setError(msg); return false
unlockFailed(passphrase, msg) ==
    /\ error' = msg
    /\ unlocking' = Idle
    /\ ret' = [op |-> "unlock", arg |-> passphrase, res |-> "false"]
    /\ UNCHANGED <<localStorage, _vault, _secureCache, vault, creating, encrypting,
                   created>>

\* unlock up to the first await of unlockVault: setError(null), readVaultMeta
unlock(passphrase) ==
    /\ UNCHANGED <<engineVars, backupVars, otherVars>>
    /\ nCalls < MaxCalls
    /\ nCalls' = nCalls + 1
    /\ LET raw == localStorage[VAULT_META_KEY] IN
       IF raw.t = "json" /\ raw.val.j = "meta" /\ raw.val.v = 1
       THEN /\ unlocking' = [pc |-> "derive", pass |-> passphrase, meta |-> raw.val]
            /\ error' = NoError
            /\ ret' = [op |-> "unlock", arg |-> passphrase, res |-> "pending"]
            /\ UNCHANGED <<localStorage, _vault, _secureCache, vault, creating,
                           encrypting, created>>
       ELSE unlockFailed(passphrase, "Vault is not configured")

\* unlockVault after importPassphrase and deriveAesKey: the sentinel is read
unlockDerived ==
    /\ UNCHANGED <<engineVars, backupVars, otherVars>>
    /\ unlocking.pc = "derive"
    /\ UNCHANGED nCalls
    /\ LET rawCheck == localStorage[VAULT_CHECK_KEY] IN
       IF rawCheck = Null
       THEN unlockFailed(unlocking.pass, "Vault check is missing")
       ELSE /\ unlocking' = [pc |-> "check", pass |-> unlocking.pass,
                             meta |-> unlocking.meta, payload |-> rawCheck]
            /\ UNCHANGED <<localStorage, _vault, _secureCache, vault, error, creating,
                           encrypting, ret, created>>

\* faulty variant: the key is handed to the storage layer before the sentinel check
unlockChecked_KeyBeforeCheck ==
    /\ UNCHANGED <<engineVars, backupVars, otherVars>>
    /\ unlocking.pc = "check"
    /\ UNCHANGED nCalls
    /\ LET key == deriveAesKey(unlocking.pass, unlocking.meta)
           dec == decrypt(unlocking.payload, key)
           unlocked == [meta |-> unlocking.meta, key |-> key]
       IN  /\ _vault' = unlocked
           /\ IF dec.ok /\ dec.pt.j = "sentinel" /\ dec.pt.ok
              THEN /\ initContinue(initLoop(1, EmptyCache, encrypting, unlocked),
                                   unlocked, unlocking.pass)
                   /\ UNCHANGED <<localStorage, error, creating, created>>
              ELSE /\ error' = "Passphrase non valida"
                   /\ unlocking' = Idle
                   /\ ret' = [op |-> "unlock", arg |-> unlocking.pass, res |-> "false"]
                   /\ UNCHANGED <<localStorage, _secureCache, vault, creating,
                                  encrypting, created>>

\* unlockVault after the sentinel's decryption; on success unlock goes on with
\* initializeSecureStorage(unlocked) up to its first await
unlockChecked ==
    /\ UNCHANGED <<engineVars, backupVars, otherVars>>
    /\ unlocking.pc = "check"
    /\ UNCHANGED nCalls
    /\ LET key == deriveAesKey(unlocking.pass, unlocking.meta)
           dec == decrypt(unlocking.payload, key)
           unlocked == [meta |-> unlocking.meta, key |-> key]
       IN  IF dec.ok /\ dec.pt.j = "sentinel" /\ dec.pt.ok
           THEN /\ _vault' = unlocked
                /\ initContinue(initLoop(1, EmptyCache, encrypting, unlocked),
                                unlocked, unlocking.pass)
                /\ UNCHANGED <<localStorage, error, creating, created>>
           ELSE unlockFailed(unlocking.pass, "Passphrase non valida")

\* VaultGate: the unlock form is rendered only while isUnlocked is false, and
\* its submit button is disabled while isInitializing (an unlock is in flight)
VaultGateCanSubmit == ~isUnlocked /\ unlocking = Idle

\* -------------------------------------------------------- VaultProvider.lock
\* faulty variant: clear also removes the persisted encrypted items
clearSecureStorage_RemovesItems ==
    /\ _vault' = Null
    /\ _secureCache' = EmptyCache
    /\ localStorage' = [k \in StorageKeySet |->
           IF k \in EncryptedKeySet THEN Null ELSE localStorage[k]]

\* clearSecureStorage: _vault = null; _secureCache.clear()
clearSecureStorage ==
    /\ _vault' = Null
    /\ _secureCache' = EmptyCache
    /\ UNCHANGED localStorage

\* lock: setVault(null); setError(null); clearSecureStorage()
lock ==
    /\ UNCHANGED <<engineVars, backupVars, otherVars>>
    /\ nCalls < MaxCalls
    /\ nCalls' = nCalls + 1
    /\ vault' = Null
    /\ error' = NoError
    /\ clearSecureStorage
    /\ ret' = [op |-> "lock", arg |-> "", res |-> "ok"]
    /\ UNCHANGED <<creating, unlocking, encrypting, created>>

\* ------------------------------------------------------------ setSecureData
\* faulty variant: the cache is updated before the vault check
setSecureData_CacheBeforeCheck(key, data) ==
    /\ UNCHANGED <<engineVars, backupVars, otherVars>>
    /\ key \in EncryptedKeySet
    /\ nCalls < MaxCalls
    /\ nCalls' = nCalls + 1
    /\ _secureCache' = [_secureCache EXCEPT ![key] = data]
    /\ IF _vault = Null
       THEN /\ ret' = [op |-> "setSecureData", arg |-> <<key, data>>,
                       res |-> "VaultLockedError"]
            /\ UNCHANGED encrypting
       ELSE /\ encrypting' = scheduleEncrypt(encrypting, key, data, _vault)
            /\ ret' = [op |-> "setSecureData", arg |-> <<key, data>>, res |-> "ok"]
    /\ UNCHANGED <<localStorage, _vault, vault, error, creating, unlocking, created>>

\* setSecureData(key, data) for a key of ENCRYPTED_KEYS, up to the await
setSecureData(key, data) ==
    /\ UNCHANGED <<engineVars, backupVars, otherVars>>
    /\ key \in EncryptedKeySet
    /\ nCalls < MaxCalls
    /\ nCalls' = nCalls + 1
    /\ IF _vault = Null
       THEN /\ ret' = [op |-> "setSecureData", arg |-> <<key, data>>,
                       res |-> "VaultLockedError"]
            /\ UNCHANGED <<_secureCache, encrypting>>
       ELSE /\ _secureCache' = [_secureCache EXCEPT ![key] = data]
            /\ encrypting' = scheduleEncrypt(encrypting, key, data, _vault)
            /\ ret' = [op |-> "setSecureData", arg |-> <<key, data>>, res |-> "ok"]
    /\ UNCHANGED <<localStorage, _vault, vault, error, creating, unlocking, created>>

\* ------------------------------------------------ saveWallet, saveTransaction
\* generateId(): an identifier no earlier call returned and no stored item has
FirstId == 10
generateId == FirstId + nCalls

\* saveWallet / saveTransaction: read the list with getSecureData(key, []),
\* push the new item, write the list with setSecureData; an item is modelled
\* by its id
saveItem(key) ==
    /\ UNCHANGED <<engineVars, backupVars, otherVars>>
    /\ nCalls < MaxCalls
    /\ nCalls' = nCalls + 1
    /\ LET read == getSecureData(key) IN
       IF read.threw \/ _vault = Null
       THEN /\ ret' = [op |-> "save", arg |-> key, res |-> "VaultLockedError"]
            /\ UNCHANGED <<_secureCache, encrypting>>
       ELSE LET data == List(Append(read.value.items, generateId)) IN
            /\ _secureCache' = [_secureCache EXCEPT ![key] = data]
            /\ encrypting' = scheduleEncrypt(encrypting, key, data, _vault)
            /\ ret' = [op |-> "save", arg |-> key, res |-> "ok"]
    /\ UNCHANGED <<localStorage, _vault, vault, error, creating, unlocking, created>>

saveWallet == saveItem(WALLETS)
saveTransaction == saveItem(TRANSACTIONS)

\* ================================================== lib/cost-basis (engine)
\* Numbers are JavaScript numbers in the code and integers here: the inputs
\* below make every division exact.  Timestamps are counted in units of
\* 10^8 ms, so that 10^12 ms is 10000 and 17000 is a day of November 2023.
MS_THRESHOLD == 10000

CostBasisMethods == {"FIFO", "LIFO", "HIFO"}

\* suffixes `${Date.now()}-${Math.random().toString(36).substr(2, 5)}` of a lot id
IdSuffixes == {1, 2}

NoResult == [t |-> "none"]

Tx(hash, type, asset, amount, valueEur, timestamp) ==
    [hash |-> hash, type |-> type, asset |-> asset, amount |-> amount,
     valueEur |-> valueEur, timestamp |-> timestamp]

\* String.prototype.toUpperCase on the asset symbols of the inputs
toUpperCase(asset) == IF asset = "btc" THEN "BTC" ELSE IF asset = "eth" THEN "ETH" ELSE asset

\* new Date(timestamp).getFullYear() for the timestamps of the inputs
getFullYear(timestamp) == IF timestamp < 17041 THEN 2023 ELSE 2024

Min(a, b) == IF a < b THEN a ELSE b
\* faulty variant: the sign is kept
abs_KeepsSign(a) == a

\* Math.abs
abs(a) == IF a < 0 THEN -a ELSE a

\* Array.prototype.sort with a comparator (a, b) => key(a) - key(b) is stable:
\* `s` is a sequence of [key, val]; elements of equal key keep their order
RECURSIVE sortedInsert(_, _)
sortedInsert(s, x) ==
    IF s = <<>> THEN <<x>>
    ELSE IF Head(s).key <= x.key THEN <<Head(s)>> \o sortedInsert(Tail(s), x)
    ELSE <<x>> \o s

RECURSIVE sortByKey(_)
sortByKey(s) ==
    IF s = <<>> THEN <<>>
    ELSE sortedInsert(sortByKey(SubSeq(s, 1, Len(s) - 1)), s[Len(s)])

\* tx.timestamp < 1e12 ? tx.timestamp * 1000 : tx.timestamp
normalizeTimestamp(timestamp) ==
    IF timestamp < MS_THRESHOLD THEN timestamp * 1000 ELSE timestamp

\* const normalizedTx = transactions.map(tx => ({ ...tx, timestamp: ... }))
normalizedTx(txs) ==
    [i \in 1..Len(txs) |-> [txs[i] EXCEPT !.timestamp = normalizeTimestamp(@)]]

\* faulty variant: the transactions are processed in the order of the input
sortTx_InputOrder(txs) == normalizedTx(txs)

\* [...normalizedTx].sort((a, b) => a.timestamp - b.timestamp)
sortTx(txs) ==
    LET n == normalizedTx(txs)
        sorted == sortByKey([i \in 1..Len(n) |-> [key |-> n[i].timestamp, val |-> n[i]]])
    IN  [i \in 1..Len(sorted) |-> sorted[i].val]

\* lotsByAsset[asset] || []   (lotsByAsset is kept as its entries, in key order)
lotsOf(lba, asset) ==
    IF \E i \in 1..Len(lba) : lba[i].asset = asset
    THEN lba[CHOOSE i \in 1..Len(lba) : lba[i].asset = asset].lots
    ELSE <<>>

\* lotsByAsset[asset] = lots   (a new key goes last)
setLots(lba, asset, lots) ==
    IF \E i \in 1..Len(lba) : lba[i].asset = asset
    THEN [i \in 1..Len(lba) |-> IF lba[i].asset = asset
                                 THEN [asset |-> asset, lots |-> lots] ELSE lba[i]]
    ELSE Append(lba, [asset |-> asset, lots |-> lots])

\* getLotsForMethod(lots, m): the available lots in the method's order, as
\* indices into `lots` (the sorted array holds the lot objects themselves)
getLotsForMethod(lots, m) ==
    LET available == SelectSeq([i \in 1..Len(lots) |-> i],
                               LAMBDA i : lots[i].remainingAmount > 0)
        keyed == [k \in 1..Len(available) |->
                    [key |-> CASE m = "LIFO" -> 0 - lots[available[k]].timestamp
                               [] m = "HIFO" -> 0 - lots[available[k]].costPerUnit
                               [] OTHER -> lots[available[k]].timestamp,
                     val |-> available[k]]]
        sorted == sortByKey(keyed)
    IN  [k \in 1..Len(sorted) |-> sorted[k].val]

\* lots.find(l => l.id === id): the first lot that carries the id
findLot(lots, id) == CHOOSE i \in 1..Len(lots) :
                        /\ lots[i].id = id
                        /\ \A j \in 1..(i - 1) : lots[j].id # id

\* Math.min(lot.remainingAmount, remainingToSell)
amountFromThisLot(remainingAmount, remainingToSell) == Min(remainingAmount, remainingToSell)

\* `for (const lot of orderedLots)` from its k-th lot on
RECURSIVE consumeLots(_, _, _, _, _, _)
consumeLots(orderedLots, k, lots, remainingToSell, totalCostBasis, lotsUsed) ==
    IF k > Len(orderedLots) \/ remainingToSell <= 0
    THEN [lots |-> lots, remainingToSell |-> remainingToSell,
          totalCostBasis |-> totalCostBasis, lotsUsed |-> lotsUsed]
    ELSE LET lot == lots[orderedLots[k]] IN
         IF lot.remainingAmount <= 0
         THEN consumeLots(orderedLots, k + 1, lots, remainingToSell, totalCostBasis,
                          lotsUsed)
         ELSE LET amount == amountFromThisLot(lot.remainingAmount, remainingToSell)
                  costFromThisLot == amount * lot.costPerUnit
                  originalLot == findLot(lots, lot.id)
              IN  consumeLots(orderedLots, k + 1,
                              [lots EXCEPT ![originalLot].remainingAmount = @ - amount],
                              remainingToSell - amount,
                              totalCostBasis + costFromThisLot,
                              Append(lotsUsed, [lotId |-> lot.id,
                                                amountUsed |-> amount,
                                                costPerUnit |-> lot.costPerUnit,
                                                cost |-> costFromThisLot]))

\* faulty variant: staking counts as an acquisition
isAcquisition_WithStake(tx) == tx.type \in {"buy", "airdrop", "transfer", "stake"}

\* tx.type === 'buy' || tx.type === 'airdrop' || tx.type === 'transfer'
isAcquisition(tx) == tx.type \in {"buy", "airdrop", "transfer"}

\* the lot an acquisition creates; `suffix` is the random part of its id
newLot(tx, suffix) ==
    [id |-> [hash |-> tx.hash, suffix |-> suffix],
     asset |-> toUpperCase(tx.asset),
     amount |-> tx.amount,
     remainingAmount |-> tx.amount,
     costPerUnit |-> IF tx.amount > 0 THEN tx.valueEur \div tx.amount ELSE 0,
     totalCost |-> tx.valueEur,
     timestamp |-> tx.timestamp,
     txHash |-> tx.hash]

\* the call: normalize and sort the transactions, empty accumulators
calculateCostBasis ==
    /\ sortedTx = <<>>
    /\ pos = 0
    /\ result = NoResult
    /\ transactions # <<>>
    /\ sortedTx' = sortTx(transactions)
    /\ UNCHANGED <<transactions, method, pos, lotsByAsset, sales, totalGains,
                   totalLosses, result, previous, taxYear, yearResult, filterCalls>>
    /\ UNCHANGED <<vaultVars, backupVars, otherVars>>

\* one iteration of `for (const tx of sortedTx)`
processTransaction ==
    /\ pos < Len(sortedTx)
    /\ LET tx == sortedTx[pos + 1]
           asset == toUpperCase(tx.asset)
           lots == lotsOf(lotsByAsset, asset)
       IN  IF isAcquisition(tx)
           THEN /\ \E suffix \in IdSuffixes :
                     lotsByAsset' = setLots(lotsByAsset, asset,
                                            Append(lots, newLot(tx, suffix)))
                /\ UNCHANGED <<sales, totalGains, totalLosses>>
           ELSE IF tx.type = "sell"
           THEN LET done == consumeLots(getLotsForMethod(lots, method), 1, lots,
                                        tx.amount, 0, <<>>)
                    proceeds == tx.valueEur
                    gainLoss == proceeds - done.totalCostBasis
                IN  /\ lotsByAsset' = IF lots = <<>> THEN lotsByAsset
                                      ELSE setLots(lotsByAsset, asset, done.lots)
                    /\ sales' = Append(sales, [transaction |-> tx,
                                               proceeds |-> proceeds,
                                               costBasis |-> done.totalCostBasis,
                                               gainLoss |-> gainLoss,
                                               lotsUsed |-> done.lotsUsed])
                    /\ IF gainLoss > 0
                       THEN /\ totalGains' = totalGains + gainLoss
                            /\ UNCHANGED totalLosses
                       ELSE /\ totalLosses' = totalLosses + abs(gainLoss)
                            /\ UNCHANGED totalGains
           ELSE UNCHANGED <<lotsByAsset, sales, totalGains, totalLosses>>
    /\ pos' = pos + 1
    /\ UNCHANGED <<transactions, method, sortedTx, result, previous, taxYear,
                   yearResult, filterCalls>>
    /\ UNCHANGED <<vaultVars, backupVars, otherVars>>

RECURSIVE sumSeq(_)
sumSeq(s) == IF s = <<>> THEN 0 ELSE Head(s) + sumSeq(Tail(s))

\* Object.values(lotsByAsset).flat()
RECURSIVE allLots(_)
allLots(lba) == IF lba = <<>> THEN <<>> ELSE Head(lba).lots \o allLots(Tail(lba))

\* the unrealizedGains record: one entry per asset that is still held
unrealizedGains(lba) ==
    LET held(i) == SelectSeq(lba[i].lots, LAMBDA l : l.remainingAmount > 0)
        totalAmount(i) == sumSeq([k \in 1..Len(held(i)) |-> held(i)[k].remainingAmount])
        totalCostBasis(i) == sumSeq([k \in 1..Len(held(i)) |->
                                 held(i)[k].remainingAmount * held(i)[k].costPerUnit])
    IN  { [asset |-> lba[i].asset,
           amount |-> totalAmount(i),
           costBasis |-> totalCostBasis(i),
           avgCost |-> [num |-> totalCostBasis(i), den |-> totalAmount(i)]] :
          i \in {j \in 1..Len(lba) : totalAmount(j) > 0} }

\* the `return { lots, sales, totalGains, totalLosses, netGain, unrealizedGains }`
returnResult ==
    /\ sortedTx # <<>>
    /\ pos = Len(sortedTx)
    /\ result = NoResult
    /\ result' = [lots |-> allLots(lotsByAsset),
                  sales |-> sales,
                  totalGains |-> totalGains,
                  totalLosses |-> totalLosses,
                  netGain |-> totalGains - totalLosses,
                  unrealizedGains |-> unrealizedGains(lotsByAsset)]
    /\ UNCHANGED <<transactions, method, sortedTx, pos, lotsByAsset, sales, totalGains,
                   totalLosses, previous, taxYear, yearResult, filterCalls>>
    /\ UNCHANGED <<vaultVars, backupVars, otherVars>>

\* the caller calls calculateCostBasis again with the same arguments
calculateAgain ==
    /\ result # NoResult
    /\ previous = NoResult
    /\ previous' = result
    /\ result' = NoResult
    /\ sortedTx' = <<>>
    /\ pos' = 0
    /\ lotsByAsset' = <<>>
    /\ sales' = <<>>
    /\ totalGains' = 0
    /\ totalLosses' = 0
    /\ UNCHANGED <<transactions, method, taxYear, yearResult, filterCalls>>
    /\ UNCHANGED <<vaultVars, backupVars, otherVars>>

\* no call of the engine has been made
\* Math.max / Math.min
Max(a, b) == IF a > b THEN a ELSE b

\* reading a property of `undefined`
TypeError == [t |-> "TypeError"]

\* filterTaxResultsByYear(result, year); `r.sales` is undefined when the
\* object has no such property, and `.filter` on it throws
filterTaxResultsByYear(r, year) ==
    IF "sales" \notin DOMAIN r THEN TypeError
    ELSE LET taxableEvents ==
                 SelectSeq(r.sales,
                           LAMBDA sale : getFullYear(sale.transaction.timestamp) = year)
             gains == sumSeq([i \in 1..Len(taxableEvents) |->
                                 Max(0, taxableEvents[i].gainLoss)])
             losses == sumSeq([i \in 1..Len(taxableEvents) |->
                                 abs(Min(0, taxableEvents[i].gainLoss))])
         IN  [totalGains |-> gains,
              totalLosses |-> losses,
              netGain |-> gains - losses,
              taxableEvents |-> taxableEvents]

\* the years a report is asked for
TaxYears == {2023, 2024}

\* filterTaxResultsByYear(costBasisResult, year)
filterByYear ==
    /\ result # NoResult
    /\ filterCalls = 0
    /\ \E year \in TaxYears :
          /\ taxYear' = year
          /\ yearResult' = filterTaxResultsByYear(result, year)
    /\ filterCalls' = 1
    /\ UNCHANGED <<transactions, method, sortedTx, pos, lotsByAsset, sales, totalGains,
                   totalLosses, result, previous>>
    /\ UNCHANGED <<vaultVars, backupVars, otherVars>>

\* filterTaxResultsByYear applied to what filterTaxResultsByYear returned
filterAgain ==
    /\ filterCalls = 1
    /\ yearResult' = filterTaxResultsByYear(yearResult, taxYear)
    /\ filterCalls' = 2
    /\ UNCHANGED <<transactions, method, sortedTx, pos, lotsByAsset, sales, totalGains,
                   totalLosses, result, previous, taxYear>>
    /\ UNCHANGED <<vaultVars, backupVars, otherVars>>

EngineIdle ==
    /\ transactions = <<>>
    /\ method = "FIFO"
    /\ sortedTx = <<>>
    /\ pos = 0
    /\ lotsByAsset = <<>>
    /\ sales = <<>>
    /\ totalGains = 0
    /\ totalLosses = 0
    /\ result = NoResult
    /\ previous = NoResult
    /\ taxYear = 2023
    /\ yearResult = NoResult
    /\ filterCalls = 0

\* ========================================================== lib/backup
\* BackupDataV1: what exportBackupData returns
BackupData(wallets, txs, snapshots, providerConfigs, settings, onboardingComplete) ==
    [j |-> "backup", v |-> 1,
     wallets |-> wallets, transactions |-> txs, snapshots |-> snapshots,
     providerConfigs |-> providerConfigs, settings |-> settings,
     onboardingComplete |-> onboardingComplete,
     hiddenAssets |-> List(<<>>), spamAssets |-> List(<<>>)]

\* AppSettings; only taxMethod varies
Settings(taxMethod) == [j |-> "settings", taxMethod |-> taxMethod]
DEFAULT_SETTINGS == Settings("FIFO")
settingsSchemaOk(v) == v.j = "settings"

\* the JSON values true / false
Bool(b) == [j |-> "bool", b |-> b]

\* getSettings(): the settings read, and the item it leaves under SETTINGS
getSettings ==
    LET raw == localStorage[SETTINGS] IN
    IF raw = Null THEN [value |-> DEFAULT_SETTINGS, item |-> raw]
    ELSE IF raw.t # "json" THEN [value |-> DEFAULT_SETTINGS, item |-> raw]
    ELSE LET candidate == IF isVersionedObject(raw.val) THEN raw.val.data ELSE raw.val
         IN  IF settingsSchemaOk(candidate)
             THEN [value |-> candidate, item |-> Json(wrapVersioned(candidate))]
             ELSE [value |-> DEFAULT_SETTINGS,
                   item |-> Json(wrapVersioned(DEFAULT_SETTINGS))]

\* isOnboardingComplete(): localStorage.getItem(...) === 'true'
isOnboardingComplete == localStorage[ONBOARDING_COMPLETE] = Json(Bool(TRUE))

\* exportBackupData(): the snapshot of the storage, or the error a read throws
exportBackupData ==
    IF \E k \in EncryptedKeySet : getSecureData(k).threw
    THEN Thrown("VaultLockedError")
    ELSE Returned(BackupData(getSecureData(WALLETS).value,
                             getSecureData(TRANSACTIONS).value,
                             getSecureData(SNAPSHOTS).value,
                             getSecureData(PROVIDER_CONFIGS).value,
                             getSettings.value,
                             isOnboardingComplete))

\* EncryptedBackupFileV1 { v, createdAt, meta, payload }
BackupFile(v, meta, payload) == [j |-> "backupFile", v |-> v, meta |-> meta,
                                 payload |-> payload]

\* encryptedBackupFileSchema.safeParse(...).success
encryptedBackupFileSchema(val) ==
    /\ val.j = "backupFile"
    /\ val.v = 1
    /\ val.meta.j = "meta"
    /\ val.meta.v = 1
    /\ val.payload.t = "payload"

\* randomSaltB64(): 16 random bytes, never the salt of the device vault
randomSaltB64(n) == 100 + n

NoRestore == [st |-> "none"]

\* createEncryptedBackup up to `await encryptJson`: the snapshot is taken and
\* the backup's own meta is made
createEncryptedBackup(passphrase) ==
    /\ nCalls < MaxCalls
    /\ nCalls' = nCalls + 1
    /\ LET data == exportBackupData IN
       IF data.threw
       THEN UNCHANGED <<localStorage, exporting>>
       ELSE /\ localStorage' = [localStorage EXCEPT ![SETTINGS] = getSettings.item]
            /\ exporting' = exporting \cup
                   {[pass |-> passphrase, meta |-> Meta(randomSaltB64(nCalls + 1)),
                     data |-> data.value]}
    /\ UNCHANGED <<_vault, _secureCache, vault, error, creating, unlocking, encrypting,
                   ret, created>>
    /\ UNCHANGED <<restoring, backupFiles, restored>>
    /\ UNCHANGED <<engineVars, otherVars>>

\* createEncryptedBackup after the await: JSON.stringify(file) is returned
createEncryptedBackupDone(e) ==
    /\ e \in exporting
    /\ exporting' = exporting \ {e}
    /\ backupFiles' = backupFiles \cup
           {[text |-> Json(BackupFile(1, e.meta,
                                      encrypt(e.data, deriveAesKey(e.pass, e.meta)))),
             pass |-> e.pass,
             data |-> e.data]}
    /\ UNCHANGED <<restoring, restored>>
    /\ UNCHANGED <<vaultVars, engineVars, otherVars>>

\* restoreEncryptedBackup up to `await decryptJson`: JSON.parse, safeParse
restoreEncryptedBackup(jsonText, passphrase) ==
    /\ nCalls < MaxCalls
    /\ nCalls' = nCalls + 1
    /\ IF jsonText.t # "json"
       THEN /\ restored' = [st |-> "threw", text |-> jsonText, pass |-> passphrase,
                            err |-> "SyntaxError"]
            /\ UNCHANGED restoring
       ELSE IF ~encryptedBackupFileSchema(jsonText.val)
       THEN /\ restored' = [st |-> "threw", text |-> jsonText, pass |-> passphrase,
                            err |-> "File di backup non valido o corrotto"]
            /\ UNCHANGED restoring
       ELSE /\ restoring' = restoring \cup {[text |-> jsonText, pass |-> passphrase]}
            /\ UNCHANGED restored
    /\ UNCHANGED <<localStorage, _vault, _secureCache, vault, error, creating, unlocking,
                   encrypting, ret, created>>
    /\ UNCHANGED <<exporting, backupFiles>>
    /\ UNCHANGED <<engineVars, otherVars>>

\* restoreEncryptedBackup after the await: the decrypted data is returned, or
\* the rejection of crypto.subtle.decrypt is passed on
restoreDecrypted(r) ==
    /\ r \in restoring
    /\ restoring' = restoring \ {r}
    /\ LET file == r.text.val
           dec == decrypt(file.payload, deriveAesKey(r.pass, file.meta))
       IN  restored' = IF dec.ok
                       THEN [st |-> "returned", text |-> r.text, pass |-> r.pass,
                             data |-> dec.pt]
                       ELSE [st |-> "threw", text |-> r.text, pass |-> r.pass,
                             err |-> "OperationError"]
    /\ UNCHANGED <<exporting, backupFiles>>
    /\ UNCHANGED <<vaultVars, engineVars, otherVars>>

\* faulty variant: the data is stored under the key of the backup file
applyBackup_AdoptsBackupKey ==
    /\ restored.st = "returned"
    /\ nCalls < MaxCalls
    /\ nCalls' = nCalls + 1
    /\ LET fileMeta == restored.text.val.meta
           unlocked == [meta |-> fileMeta, key |-> deriveAesKey(restored.pass, fileMeta)]
       IN  /\ _vault' = unlocked
           /\ localStorage' = [localStorage EXCEPT ![VAULT_META_KEY] = Json(fileMeta)]
           /\ _secureCache' = [_secureCache EXCEPT ![WALLETS] = restored.data.wallets]
           /\ encrypting' = scheduleEncrypt(encrypting, WALLETS, restored.data.wallets,
                                            unlocked)
    /\ restored' = [restored EXCEPT !.st = "applied"]
    /\ UNCHANGED <<vault, error, creating, unlocking, ret, created>>
    /\ UNCHANGED <<exporting, restoring, backupFiles>>
    /\ UNCHANGED <<engineVars, otherVars>>

\* applyBackup(data) -> importBackupData(data), `data` being what
\* restoreEncryptedBackup returned
applyBackup ==
    /\ restored.st = "returned"
    /\ nCalls < MaxCalls
    /\ nCalls' = nCalls + 1
    /\ LET backup == restored.data IN
       IF backup.j # "backup" \/ backup.v # 1
       THEN /\ restored' = [restored EXCEPT !.st = "unsupported"]
            /\ UNCHANGED <<localStorage, _secureCache, encrypting>>
       ELSE IF _vault = Null
       THEN /\ restored' = [restored EXCEPT !.st = "locked"]
            /\ UNCHANGED <<localStorage, _secureCache, encrypting>>
       ELSE /\ _secureCache' =
                  [k \in EncryptedKeySet |->
                      CASE k = WALLETS -> backup.wallets
                        [] k = TRANSACTIONS -> backup.transactions
                        [] k = SNAPSHOTS -> backup.snapshots
                        [] OTHER -> backup.providerConfigs]
            /\ encrypting' =
                  scheduleEncrypt(
                    scheduleEncrypt(
                      scheduleEncrypt(
                        scheduleEncrypt(encrypting, WALLETS, backup.wallets, _vault),
                        TRANSACTIONS, backup.transactions, _vault),
                      SNAPSHOTS, backup.snapshots, _vault),
                    PROVIDER_CONFIGS, backup.providerConfigs, _vault)
            /\ localStorage' =
                  [localStorage EXCEPT
                      ![SETTINGS] = Json(wrapVersioned(
                                       IF settingsSchemaOk(backup.settings)
                                       THEN backup.settings ELSE DEFAULT_SETTINGS)),
                      ![ONBOARDING_COMPLETE] = Json(Bool(backup.onboardingComplete)),
                      ![HIDDEN_ASSETS] = Json(backup.hiddenAssets),
                      ![SPAM_ASSETS] = Json(backup.spamAssets)]
            /\ restored' = [restored EXCEPT !.st = "applied"]
    /\ UNCHANGED <<_vault, vault, error, creating, unlocking, ret, created>>
    /\ UNCHANGED <<exporting, restoring, backupFiles>>
    /\ UNCHANGED <<engineVars, otherVars>>

\* no backup operation has been made
BackupIdle ==
    /\ exporting = {}
    /\ restoring = {}
    /\ backupFiles = {}
    /\ restored = NoRestore

\* ================================================ VaultProvider auto-lock
\* Time is counted in units of 750 ms: the throttle of markActivity is one
\* unit, the poll interval 20 units and a minute 80 units.
EVENT_THROTTLE == 1
POLL_INTERVAL == 20
MINUTE == 80
DEFAULT_AUTO_LOCK_MINUTES == 15

\* no interval is set
NoTimer == -1

\* AppSettings with the security fields; the other fields do not vary
AutoLockSettings(enabled, minutes) ==
    [j |-> "settings", taxMethod |-> "FIFO",
     autoLockEnabled |-> enabled, autoLockMinutes |-> minutes]

\* faulty variant: the setting is not consulted
autoLockEnabled_Always(s) == TRUE

\* s.autoLockEnabled !== false, s being { ...DEFAULT_SETTINGS, ...stored }
autoLockEnabled(s) ==
    IF "autoLockEnabled" \in DOMAIN s THEN s.autoLockEnabled # FALSE ELSE TRUE

\* typeof s.autoLockMinutes === 'number' ? s.autoLockMinutes : 15
autoLockMinutes(s) ==
    IF "autoLockMinutes" \in DOMAIN s THEN s.autoLockMinutes
    ELSE DEFAULT_AUTO_LOCK_MINUTES

\* Math.max(1, minutes) * 60_000
timeoutMs(s) == Max(1, autoLockMinutes(s)) * MINUTE

\* markActivity: a mousemove, keydown, touchstart, scroll or click event, or
\* the tab becoming visible
markActivity ==
    /\ nextTick # NoTimer
    /\ IF now - lastEvent < EVENT_THROTTLE
       THEN UNCHANGED <<lastEvent, lastActivity>>
       ELSE /\ lastEvent' = now
            /\ lastActivity' = now
    /\ UNCHANGED <<now, nextTick>>
    /\ UNCHANGED <<vaultVars, engineVars, backupVars, callVars, limiterVars>>

\* the callback of window.setInterval(..., 15_000)
autoLockTick ==
    /\ nextTick # NoTimer
    /\ now = nextTick
    /\ LET s == getSettings.value IN
       /\ localStorage' = [localStorage EXCEPT ![SETTINGS] = getSettings.item]
       /\ IF autoLockEnabled(s) /\ now - lastActivity >= timeoutMs(s)
          THEN \* lock(); the effect's cleanup clears the interval
               /\ vault' = Null
               /\ error' = NoError
               /\ _vault' = Null
               /\ _secureCache' = EmptyCache
               /\ nextTick' = NoTimer
          ELSE /\ nextTick' = now + POLL_INTERVAL
               /\ UNCHANGED <<vault, error, _vault, _secureCache>>
    /\ UNCHANGED <<now, lastActivity, lastEvent>>
    /\ UNCHANGED <<creating, unlocking, encrypting, ret, created, nCalls>>
    /\ UNCHANGED <<engineVars, backupVars, callVars, limiterVars>>

\* saveSettings(settings) from the settings panel
saveSettings(settings) ==
    /\ nextTick # NoTimer
    /\ localStorage' = [localStorage EXCEPT ![SETTINGS] =
           Json(wrapVersioned(IF settingsSchemaOk(settings) THEN settings
                              ELSE DEFAULT_SETTINGS))]
    /\ UNCHANGED <<_vault, _secureCache, vault, error, creating, unlocking, encrypting,
                   ret, created, nCalls>>
    /\ UNCHANGED <<engineVars, backupVars, otherVars>>

\* the vault is locked: the effect has set no interval
TimerIdle ==
    /\ now = 0
    /\ lastActivity = 0
    /\ lastEvent = 0
    /\ nextTick = NoTimer

\* ============================================== lib/storage schema layer
\* JSON values besides List, Malformed (a number) and Versioned: a settings
\* object that fails settingsSchema, and an object of another shape (such as
\* a wrapper whose schemaVersion is a string)
BadSettings == [j |-> "badsettings"]
OtherObject == [j |-> "object"]

\* the kinds of KnownSchemaKey
KnownSchemaKeys == EncryptedKeySet \cup {SETTINGS}

\* getSchemaInfo(key).version
schemaVersionOf(key) == SCHEMA_VERSION

\* getSchemaInfo(key).defaultValue
defaultValueOf(key) == IF key = SETTINGS THEN DEFAULT_SETTINGS ELSE defaultValue

\* getSchemaInfo(key).schema(v).  The settings kind validates
\* { ...DEFAULT_SETTINGS, ...v }: a value that is no object, or an object
\* without settings fields, validates as the defaults.
schemaOf(key, v) ==
    IF key = SETTINGS
    THEN CASE v.j = "settings" -> [success |-> TRUE, data |-> v]
           [] v.j = "badsettings" -> [success |-> FALSE, data |-> Malformed]
           [] OTHER -> [success |-> TRUE, data |-> DEFAULT_SETTINGS]
    ELSE IF schemaOk(v) THEN [success |-> TRUE, data |-> v]
         ELSE [success |-> FALSE, data |-> Malformed]

\* faulty variant: a wrapper of another schemaVersion is not persisted again
normalizeKind_KeepsOldVersion(key, rawValue) ==
    IF isVersionedObject(rawValue)
    THEN LET parsed == schemaOf(key, rawValue.data) IN
         IF ~parsed.success
         THEN [data |-> defaultValueOf(key), shouldPersist |-> TRUE]
         ELSE [data |-> parsed.data, shouldPersist |-> FALSE]
    ELSE LET legacyParsed == schemaOf(key, rawValue) IN
         IF legacyParsed.success
         THEN [data |-> legacyParsed.data, shouldPersist |-> TRUE]
         ELSE [data |-> defaultValueOf(key), shouldPersist |-> TRUE]

\* normalizePersisted(key, rawValue) for every kind of KnownSchemaKey
normalizeKind(key, rawValue) ==
    IF isVersionedObject(rawValue)
    THEN LET parsed == schemaOf(key, rawValue.data) IN
         IF ~parsed.success
         THEN [data |-> defaultValueOf(key), shouldPersist |-> TRUE]
         ELSE IF rawValue.schemaVersion # schemaVersionOf(key)
              THEN [data |-> parsed.data, shouldPersist |-> TRUE]
              ELSE [data |-> parsed.data, shouldPersist |-> FALSE]
    ELSE LET legacyParsed == schemaOf(key, rawValue) IN
         IF legacyParsed.success
         THEN [data |-> legacyParsed.data, shouldPersist |-> TRUE]
         ELSE [data |-> defaultValueOf(key), shouldPersist |-> TRUE]

\* the call normalizePersisted(callArgs.key, callArgs.rawValue)
callNormalizePersisted ==
    /\ callResult = NoResult
    /\ "rawValue" \in DOMAIN callArgs
    /\ callResult' = normalizeKind(callArgs.key, callArgs.rawValue)
    /\ UNCHANGED callArgs
    /\ UNCHANGED <<vaultVars, engineVars, backupVars, timerVars, limiterVars>>

\* no call is being followed
CallIdle ==
    /\ callArgs = [f |-> "none"]
    /\ callResult = NoResult

\* ==================================================== lib/api-rate-limiter
\* infuraLimiter's maxRetries
MAX_RETRIES == 2

\* queueLoop: no processQueue loop is running / the loop's `await
\* executeWithThrottle(request)` has returned and its continuation is due;
\* any other value is the request the loop awaits
LoopIdle == 0
LoopResume == -1

\* a request object before enqueue, and how an execution can end
NewRequest == [st |-> "none", retryCount |-> 0, executions |-> 0, outcome |-> "none"]
Outcomes == {"ok", "429", "other"}

\* isRateLimitError(error)
isRateLimitError(outcome) == outcome = "429"

\* executeWithThrottle(request) up to its first await: the throttle loop
\* waits while less than delayMs has passed since lastRequestTime, otherwise
\* lastRequestTime is set and request.execute() is called.  (The rolling
\* window of maxRequestsPerSecond is never full when requests are delayMs
\* apart, which holds for every configuration the module exports.)
executeWithThrottle(reqs, id, cool) ==
    IF cool
    THEN [requests |-> [reqs EXCEPT ![id].st = "throttle"], cooling |-> cool]
    ELSE [requests |-> [reqs EXCEPT ![id].st = "executing",
                                    ![id].executions = @ + 1],
          cooling |-> TRUE]

\* `while (this.queue.length > 0) { shift(); await executeWithThrottle }`
\* up to the await, or `this.processing = false` when the queue is empty
processLoop(q, reqs, cool) ==
    IF q = <<>>
    THEN [queue |-> q, processing |-> FALSE, queueLoop |-> LoopIdle,
          requests |-> reqs, cooling |-> cool]
    ELSE LET run == executeWithThrottle(reqs, Head(q), cool) IN
         [queue |-> Tail(q), processing |-> TRUE, queueLoop |-> Head(q),
          requests |-> run.requests, cooling |-> run.cooling]

\* executeWithThrottle(id) returns: the loop that awaits it goes on
returned(id) == IF queueLoop = id THEN LoopResume ELSE queueLoop

\* enqueue(id, request, { skipQueue }) with processQueue() up to its await
enqueue(id, skipQueue) ==
    /\ requests[id].st = "none"
    /\ IF skipQueue
       THEN LET run == executeWithThrottle(requests, id, cooling) IN
            /\ requests' = run.requests
            /\ cooling' = run.cooling
            /\ UNCHANGED <<queue, processing, queueLoop>>
       ELSE LET pushed == Append(queue, id)
                reqs1 == [requests EXCEPT ![id].st = "queued"]
                loop == processLoop(pushed, reqs1, cooling)
            IN  IF processing
                THEN /\ queue' = pushed
                     /\ requests' = reqs1
                     /\ UNCHANGED <<processing, queueLoop, cooling>>
                ELSE /\ queue' = loop.queue
                     /\ processing' = loop.processing
                     /\ queueLoop' = loop.queueLoop
                     /\ requests' = loop.requests
                     /\ cooling' = loop.cooling
    /\ UNCHANGED <<vaultVars, engineVars, backupVars, timerVars, callVars>>

\* processQueue after `await this.executeWithThrottle(request)`
processQueue ==
    /\ queueLoop = LoopResume
    /\ LET loop == processLoop(queue, requests, cooling) IN
       /\ queue' = loop.queue
       /\ processing' = loop.processing
       /\ queueLoop' = loop.queueLoop
       /\ requests' = loop.requests
       /\ cooling' = loop.cooling
    /\ UNCHANGED <<vaultVars, engineVars, backupVars, timerVars, callVars>>

\* the throttle loop after `await this.delay(...)`, once delayMs has passed
throttleDone(id) ==
    /\ requests[id].st = "throttle"
    /\ ~cooling
    /\ LET run == executeWithThrottle(requests, id, cooling) IN
       /\ requests' = run.requests
       /\ cooling' = run.cooling
    /\ UNCHANGED <<queue, processing, queueLoop>>
    /\ UNCHANGED <<vaultVars, engineVars, backupVars, timerVars, callVars>>

\* delayMs have passed since lastRequestTime
delayPasses ==
    /\ cooling
    /\ cooling' = FALSE
    /\ UNCHANGED <<queue, processing, queueLoop, requests>>
    /\ UNCHANGED <<vaultVars, engineVars, backupVars, timerVars, callVars>>

\* executeWithThrottle after `await request.execute()`: resolve, or the catch
executeDone(id, outcome) ==
    /\ requests[id].st = "executing"
    /\ IF outcome = "ok"
       THEN /\ requests' = [requests EXCEPT ![id].st = "resolved",
                                            ![id].outcome = outcome]
            /\ queueLoop' = returned(id)
       ELSE IF isRateLimitError(outcome) /\ requests[id].retryCount < MAX_RETRIES
       THEN /\ requests' = [requests EXCEPT ![id].st = "backoff",
                                            ![id].retryCount = @ + 1,
                                            ![id].outcome = outcome]
            /\ UNCHANGED queueLoop
       ELSE /\ requests' = [requests EXCEPT ![id].st = "rejected",
                                            ![id].outcome = outcome]
            /\ queueLoop' = returned(id)
    /\ UNCHANGED <<queue, processing, cooling>>
    /\ UNCHANGED <<vaultVars, engineVars, backupVars, timerVars, callVars>>

\* the catch after `await this.delay(retryDelay)`: this.queue.unshift(request)
backoffDone(id) ==
    /\ requests[id].st = "backoff"
    /\ queue' = <<id>> \o queue
    /\ requests' = [requests EXCEPT ![id].st = "queued"]
    /\ queueLoop' = returned(id)
    /\ UNCHANGED <<processing, cooling>>
    /\ UNCHANGED <<vaultVars, engineVars, backupVars, timerVars, callVars>>

\* clearQueue(): every queued request is rejected with 'Queue cleared'
clearQueue ==
    /\ queue # <<>>
    /\ requests' = [id \in DOMAIN requests |->
                      IF \E i \in 1..Len(queue) : queue[i] = id
                      THEN [requests[id] EXCEPT !.st = "rejected", !.outcome = "cleared"]
                      ELSE requests[id]]
    /\ queue' = <<>>
    /\ UNCHANGED <<processing, queueLoop, cooling>>
    /\ UNCHANGED <<vaultVars, engineVars, backupVars, timerVars, callVars>>

\* a limiter that has received no request
LimiterIdle ==
    /\ queue = <<>>
    /\ processing = FALSE
    /\ queueLoop = LoopIdle
    /\ cooling = FALSE
    /\ requests = <<>>

OtherIdle == TimerIdle /\ CallIdle /\ LimiterIdle

\* ------------------------------------------------------------ specification
\* a fresh install: nothing persisted, nothing in memory
Init ==
    /\ localStorage = [k \in StorageKeySet |-> Null]
    /\ _vault = Null
    /\ _secureCache = EmptyCache
    /\ vault = Null
    /\ error = NoError
    /\ creating = {}
    /\ unlocking = Idle
    /\ encrypting = {}
    /\ ret = [op |-> "none", arg |-> "", res |-> "ok"]
    /\ created = "none"
    /\ nCalls = 0
    /\ EngineIdle
    /\ BackupIdle
    /\ OtherIdle

Next ==
    \/ \E p \in Passphrases : createVault(p)
    \/ \E c \in creating : createVaultSentinel(c)
    \/ VaultGateCanSubmit /\ \E p \in Passphrases : unlock(p)
    \/ unlockDerived
    \/ unlockChecked
    \/ initDecrypted
    \/ lock
    \/ \E k \in WriteKeys, d \in WriteValues : setSecureData(k, d)
    \/ \E t \in encrypting : encryptDone(t)

Spec == Init /\ [][Next]_vars

\* a session that also adds wallets and transactions
NextSave ==
    \/ Next
    \/ saveWallet
    \/ saveTransaction

SpecSave == Init /\ [][NextSave]_vars

\* ------------------------------------------- a later session, awaited calls
\* The state a later session starts from: a vault created by an earlier
\* session under PersistedPassphrase, and whatever earlier sessions (or earlier
\* versions of the application) left under the encrypted keys.
PersistedPassphrase == "passphrase-A"
PersistedMeta == Meta(0)
PersistedKey == deriveAesKey(PersistedPassphrase, PersistedMeta)
\* a key no passphrase of this session derives: the blob is undecryptable
ForeignKey == [pass |-> PersistedPassphrase, salt |-> -1]

\* a write of an earlier session that has landed
LandedBlob == encrypt(wrapVersioned(List(<<1>>)), PersistedKey)
\* a blob whose decryption fails (tampered, or written under another key)
UndecryptableBlob == encrypt(wrapVersioned(List(<<2>>)), ForeignKey)
\* the other shapes initializeSecureStorage distinguishes
OtherBlobs ==
    { Null,
      encrypt(wrapVersioned(Malformed), PersistedKey),
      encrypt(Versioned(0, List(<<1>>)), PersistedKey),
      encrypt(List(<<1>>), PersistedKey),
      Json(List(<<1>>)),
      Json(Malformed),
      Garbage }

\* every subset of the keys undecryptable and the rest landed; and each other
\* shape under each key, with the remaining keys all landed or all undecryptable
PersistedStates ==
    { st \in [EncryptedKeySet -> {LandedBlob, UndecryptableBlob} \cup OtherBlobs] :
        LET others == {k \in EncryptedKeySet : st[k] \in OtherBlobs} IN
        \/ others = {}
        \/ /\ Cardinality(others) = 1
           /\ \A k1, k2 \in EncryptedKeySet \ others : st[k1] = st[k2] }

InitSeq ==
    /\ \E st \in PersistedStates :
         localStorage = [k \in StorageKeySet |->
            IF k \in EncryptedKeySet THEN st[k]
            ELSE IF k = VAULT_META_KEY THEN Json(PersistedMeta)
            ELSE IF k = VAULT_CHECK_KEY THEN encrypt(Sentinel(TRUE), PersistedKey)
            ELSE Null]
    /\ _vault = Null
    /\ _secureCache = EmptyCache
    /\ vault = Null
    /\ error = NoError
    /\ creating = {}
    /\ unlocking = Idle
    /\ encrypting = {}
    /\ ret = [op |-> "none", arg |-> "", res |-> "ok"]
    /\ created = PersistedPassphrase
    /\ nCalls = 0
    /\ EngineIdle
    /\ BackupIdle
    /\ OtherIdle

\* the caller awaits createVault and unlock before its next call
Settled == creating = {} /\ unlocking = Idle

NextSeq ==
    \/ Settled /\ \E p \in Passphrases : createVault(p)
    \/ \E c \in creating : createVaultSentinel(c)
    \/ Settled /\ VaultGateCanSubmit /\ \E p \in Passphrases : unlock(p)
    \/ unlockDerived
    \/ unlockChecked
    \/ initDecrypted
    \/ Settled /\ encrypting = {} /\ lock
    \/ Settled /\ \E k \in WriteKeys, d \in WriteValues : setSecureData(k, d)
    \/ \E t \in encrypting : encryptDone(t)

\* API calls are awaited, and lock is called once every encryption has landed
SpecSeq == InitSeq /\ [][NextSeq]_vars

\* ------------------------------------------- calls of the cost-basis engine
\* transactions of a history drawn freely from TxDomain
MaxTx == 3

\* The transactions the histories are made of.  BTC is bought at 30, 10 and
\* 20 EUR a unit at three times (17000, 17020: 2023; 17100: 2024) and sold at
\* the price of the time; "0xa1" is seen twice, as a buy and as the transfer
\* another wallet reports for it, in seconds and with no value.
TxDomain ==
    { Tx("0xa1", "buy",      "BTC", 1, 30, 17000),
      Tx("0xa2", "buy",      "BTC", 1, 10, 17020),
      Tx("0xa3", "buy",      "BTC", 1, 20, 17100),
      Tx("0xb1", "buy",      "BTC", 2, 60, 17000),
      Tx("0xc2", "sell",     "BTC", 1, 10, 17020),
      Tx("0xc3", "sell",     "BTC", 2, 40, 17100),
      Tx("0xc4", "sell",     "BTC", 3, 60, 17100),
      Tx("0xa1", "transfer", "btc", 1, 0,  17),
      Tx("0xd2", "stake",    "BTC", 1, 10, 17020),
      Tx("0xe1", "airdrop",  "ETH", 1, 5,  17000),
      Tx("0xe3", "sell",     "ETH", 1, 20, 17100) }

\* the method-ordering scenario: lots costing [30, 10, 20] acquired in that
\* order and a sale of two of them, passed in any order
MethodOrderingTxs ==
    << Tx("0xa1", "buy",  "BTC", 1, 30, 17000),
       Tx("0xa2", "buy",  "BTC", 1, 10, 17020),
       Tx("0xa3", "buy",  "BTC", 1, 20, 17100),
       Tx("0xc3", "sell", "BTC", 2, 40, 17100) >>

Permutations4 == {p \in [1..4 -> 1..4] : \A i, j \in 1..4 : p[i] = p[j] => i = j}

Histories ==
    UNION {[1..n -> TxDomain] : n \in 1..MaxTx}
    \cup {[i \in 1..4 |-> MethodOrderingTxs[p[i]]] : p \in Permutations4}

\* nothing persisted, nothing in memory (the engine does not use the vault)
VaultFresh ==
    /\ localStorage = [k \in StorageKeySet |-> Null]
    /\ _vault = Null
    /\ _secureCache = EmptyCache
    /\ vault = Null
    /\ error = NoError
    /\ creating = {}
    /\ unlocking = Idle
    /\ encrypting = {}
    /\ ret = [op |-> "none", arg |-> "", res |-> "ok"]
    /\ created = "none"
    /\ nCalls = 0

InitEngine ==
    /\ VaultFresh
    /\ BackupIdle
    /\ OtherIdle
    /\ transactions \in Histories
    /\ method \in CostBasisMethods
    /\ sortedTx = <<>>
    /\ pos = 0
    /\ lotsByAsset = <<>>
    /\ sales = <<>>
    /\ totalGains = 0
    /\ totalLosses = 0
    /\ result = NoResult
    /\ previous = NoResult
    /\ taxYear = 2023
    /\ yearResult = NoResult
    /\ filterCalls = 0

NextEngine ==
    \/ calculateCostBasis
    \/ processTransaction
    \/ returnResult

\* one call of calculateCostBasis on every history and method
SpecEngine == InitEngine /\ [][NextEngine]_vars

NextReport ==
    \/ NextEngine
    \/ filterByYear
    \/ filterAgain

NextTwice ==
    \/ NextEngine
    \/ calculateAgain

\* calculateCostBasis called twice with the same transactions and method
SpecTwice == InitEngine /\ [][NextTwice]_vars

\* one call of calculateCostBasis, then the year filter on its result
SpecReport == InitEngine /\ [][NextReport]_vars

\* ================================================================== claims
\* the step is a call of `op`
Calls(op) == nCalls' = nCalls + 1 /\ ret'.op = op

\* the key derived from a passphrase under the persisted vault meta
PersistedMetaKey(passphrase) ==
    deriveAesKey(passphrase, localStorage[VAULT_META_KEY].val)

\* the data normalizePersisted validates: the wrapper's data, or the bare value
dataOf(pt) == IF isVersionedObject(pt) THEN pt.data ELSE pt

\* C1: read-your-write.  While the vault is unlocked, getSecureData(key)
\* after setSecureData(key, v) returns v, whether or not the encryption of
\* that write has completed and whatever is persisted under the key.
C1_ReadYourWrite ==
    (ret.op = "setSecureData" /\ ret.res = "ok" /\ isVaultReady /\ unlocking = Idle)
        => getSecureData(ret.arg[1]) = Returned(ret.arg[2])

\* C2: cache/disk convergence.  Once no encryption of a key is in flight, the
\* blob persisted for the key decrypts under the vault key to the versioned
\* wrapper of the cached value.
C2_CacheDiskConverge ==
    \A k \in EncryptedKeySet :
        ( /\ isVaultReady
          /\ unlocking = Idle
          /\ _secureCache[k] # Absent
          /\ \A t \in encrypting : t.key # k )
        => decrypt(localStorage[k], _vault.key)
             = [ok |-> TRUE, pt |-> wrapVersioned(_secureCache[k])]

\* C3: sentinel gate.  After createVault(p) has completed, an unlock succeeds
\* exactly when its passphrase is p.
C3_SentinelGate ==
    (ret.op = "unlock" /\ ret.res # "pending" /\ creating = {})
        => (ret.res = "true" <=> ret.arg = created)

\* an unlock with the passphrase of a vault created in this session succeeded
C3_Witness ==
    /\ ret.op = "unlock" /\ ret.res = "true"
    /\ ret.arg = "passphrase-B" /\ created = "passphrase-B"

\* C4: write while locked.  A setSecureData call made while _vault is null
\* throws VaultLockedError, leaves the cache and every persisted entry as they
\* were and starts no encryption.
C4_WriteWhileLocked ==
    [][ (Calls("setSecureData") /\ _vault = Null)
          => /\ ret'.res = "VaultLockedError"
             /\ _secureCache' = _secureCache
             /\ localStorage' = localStorage
             /\ encrypting' = encrypting ]_vars

\* a write to a key that has a persisted blob was refused
C4_Witness ==
    /\ ret.op = "setSecureData" /\ ret.res = "VaultLockedError"
    /\ localStorage[ret.arg[1]] # Null

\* C5: read while locked.  While _vault is null, getSecureData of an encrypted
\* key throws VaultLockedError whatever is persisted; reads of the other keys
\* never throw.
C5_ReadWhileLocked ==
    /\ \A k \in EncryptedKeySet : ~isVaultReady => getSecureData(k) = Thrown("VaultLockedError")
    /\ \A k \in PlainKeySet : ~getSecureData(k).threw

\* C6: no partial unlock.  After unlock returned false an error is set, the
\* storage layer has no vault key, the cache is empty and isUnlocked is false;
\* the failing step changes no persisted entry.
C6_NoPartialUnlock ==
    /\ []( (ret.op = "unlock" /\ ret.res = "false")
             => /\ error # NoError
                /\ _vault = Null
                /\ _secureCache = EmptyCache
                /\ ~isUnlocked )
    /\ [][ (ret'.op = "unlock" /\ ret'.res = "false" /\ ret' # ret)
             => localStorage' = localStorage ]_vars

\* a wrong passphrase was rejected on a vault that holds data
C6_Witness ==
    /\ ret.op = "unlock" /\ ret.res = "false"
    /\ error = "Passphrase non valida"
    /\ localStorage[WALLETS] # Null

\* C7: per-key failure isolation.  initializeSecureStorage never raises (an
\* unlock fails only on the sentinel); when it has completed, a key whose blob
\* fails decryption reads as the default and a key whose blob decrypts and
\* validates reads as its persisted data; undecryptable blobs are left as
\* they are.
C7_InitializeIsolatesFailures ==
    /\ []( (ret.op = "unlock" /\ ret.res = "false")
             => ~decrypt(localStorage[VAULT_CHECK_KEY], PersistedMetaKey(ret.arg)).ok )
    /\ []( (ret.op = "unlock" /\ ret.res = "true")
             => \A k \in EncryptedKeySet :
                  LET raw == localStorage[k]
                      dec == decrypt(raw, _vault.key)
                  IN  /\ (isVaultPayloadString(raw) /\ ~dec.ok)
                           => getSecureData(k) = Returned(defaultValue)
                      /\ (isVaultPayloadString(raw) /\ dec.ok /\ schemaOk(dataOf(dec.pt)))
                           => getSecureData(k) = Returned(dataOf(dec.pt)) )
    /\ [][ (ret.op = "unlock" /\ ret'.op = "unlock")
             => \A k \in EncryptedKeySet :
                  ( /\ isVaultPayloadString(localStorage[k])
                    /\ ~decrypt(localStorage[k], PersistedMetaKey(ret.arg)).ok )
                  => localStorage'[k] = localStorage[k] ]_vars

\* the first key failed decryption and the last key was loaded all the same
C7_Witness ==
    /\ ret.op = "unlock" /\ ret.res = "true"
    /\ localStorage[WALLETS] = UndecryptableBlob
    /\ getSecureData(WALLETS) = Returned(defaultValue)
    /\ localStorage[PROVIDER_CONFIGS] = LandedBlob
    /\ getSecureData(PROVIDER_CONFIGS) = Returned(List(<<1>>))

\* C8: clear preserves persisted data.  lock (clearSecureStorage) changes no
\* persisted entry, and once a later unlock has initialized the storage, a key
\* whose persisted blob is a landed write of a schema-valid v reads as v.
C8_ClearPreservesPersisted ==
    /\ [][ Calls("lock") => localStorage' = localStorage ]_vars
    /\ []( (ret.op = "unlock" /\ ret.res = "true")
             => \A k \in EncryptedKeySet, i \in Items :
                  localStorage[k] = encrypt(wrapVersioned(List(<<i>>)), _vault.key)
                    => getSecureData(k) = Returned(List(<<i>>)) )

\* a value written in this session is read back after lock and unlock
C8_Witness ==
    /\ ret.op = "unlock" /\ ret.res = "true" /\ nCalls >= 4
    /\ localStorage[WALLETS] = encrypt(wrapVersioned(List(<<2>>)), _vault.key)
    /\ getSecureData(WALLETS) = Returned(List(<<2>>))

\* C9: lock discards the key.  While the storage layer holds no vault key, no
\* encrypted blob is persisted, also for encryptions started before the lock.
C9_NoPersistAfterLock ==
    [][ _vault = Null
          => \A k \in EncryptedKeySet : localStorage'[k] = localStorage[k] ]_vars

\* C10: vault meta immutability.  Once persisted, the vault meta never changes.
C10_MetaImmutable ==
    [][ localStorage[VAULT_META_KEY] # Null
          => localStorage'[VAULT_META_KEY] = localStorage[VAULT_META_KEY] ]_vars

\* ------------------------------------------------- backups on a device
\* passphrases typed into the export and import dialogs (and the unlock form)
BackupPassphrases == {"passphrase-A", "passphrase-B"}

\* texts that are not a backup file: not JSON, JSON of another shape, a wrong
\* version tag, an ill-typed meta, an ill-typed payload
InvalidBackupTexts ==
    LET meta == Meta(randomSaltB64(0))
        payload == encrypt(BackupData(List(<<>>), List(<<>>), List(<<>>), List(<<>>),
                                      DEFAULT_SETTINGS, FALSE),
                           deriveAesKey("passphrase-B", meta))
    IN  { Garbage,
          Json(List(<<>>)),
          Json(BackupFile(2, meta, payload)),
          Json(BackupFile(1, Malformed, payload)),
          Json(BackupFile(1, meta, [t |-> "malformed"])) }

\* the device: a vault under PersistedPassphrase, unlocked, its cache loaded
InitBackup ==
    /\ \E wallets \in {Null, LandedBlob},
          settings \in {Null, Json(wrapVersioned(Settings("HIFO")))},
          onboarding \in {Null, Json(Bool(TRUE))} :
         /\ localStorage = [k \in StorageKeySet |->
               CASE k = VAULT_META_KEY -> Json(PersistedMeta)
                 [] k = VAULT_CHECK_KEY -> encrypt(Sentinel(TRUE), PersistedKey)
                 [] k = WALLETS -> wallets
                 [] k = SETTINGS -> settings
                 [] k = ONBOARDING_COMPLETE -> onboarding
                 [] OTHER -> Null]
         /\ _secureCache = [EmptyCache EXCEPT ![WALLETS] =
                               IF wallets = Null THEN Absent ELSE List(<<1>>)]
    /\ _vault = [meta |-> PersistedMeta, key |-> PersistedKey]
    /\ vault = [meta |-> PersistedMeta, key |-> PersistedKey]
    /\ error = NoError
    /\ creating = {}
    /\ unlocking = Idle
    /\ encrypting = {}
    /\ ret = [op |-> "none", arg |-> "", res |-> "ok"]
    /\ created = PersistedPassphrase
    /\ nCalls = 0
    /\ EngineIdle
    /\ BackupIdle
    /\ OtherIdle

\* the export and import dialogs await their call before the next one
BackupSettled == exporting = {} /\ restoring = {}

NextBackup ==
    \/ BackupSettled /\ \E p \in BackupPassphrases : createEncryptedBackup(p)
    \/ \E e \in exporting : createEncryptedBackupDone(e)
    \/ BackupSettled /\ \E text \in {h.text : h \in backupFiles} \cup InvalidBackupTexts,
                           p \in BackupPassphrases : restoreEncryptedBackup(text, p)
    \/ \E r \in restoring : restoreDecrypted(r)
    \/ BackupSettled /\ applyBackup
    \/ setSecureData(WALLETS, List(<<2>>))
    \/ \E t \in encrypting : encryptDone(t)
    \/ lock
    \/ VaultGateCanSubmit /\ \E p \in BackupPassphrases : unlock(p)
    \/ unlockDerived
    \/ unlockChecked
    \/ initDecrypted

\* export, import and apply of backups on an unlocked device, with writes,
\* lock and unlock in between
SpecBackup == InitBackup /\ [][NextBackup]_vars

\* --------------------------------------------------- an unlocked session
\* 750 ms units of time a session is followed for
MaxTime == 190

\* the auto-lock settings the settings panel can store
AutoLockChoices ==
    {AutoLockSettings(FALSE, 1), AutoLockSettings(TRUE, 1), AutoLockSettings(TRUE, 2)}

\* when the vault was unlocked
UnlockTime == 2

\* the effect has just run: the vault is unlocked and the interval is set
InitAutoLock ==
    /\ \E s \in AutoLockChoices :
         localStorage = [k \in StorageKeySet |->
            CASE k = VAULT_META_KEY -> Json(PersistedMeta)
              [] k = VAULT_CHECK_KEY -> encrypt(Sentinel(TRUE), PersistedKey)
              [] k = WALLETS -> LandedBlob
              [] k = SETTINGS -> Json(wrapVersioned(s))
              [] OTHER -> Null]
    /\ _secureCache = [EmptyCache EXCEPT ![WALLETS] = List(<<1>>)]
    /\ _vault = [meta |-> PersistedMeta, key |-> PersistedKey]
    /\ vault = [meta |-> PersistedMeta, key |-> PersistedKey]
    /\ error = NoError
    /\ creating = {}
    /\ unlocking = Idle
    /\ encrypting = {}
    /\ ret = [op |-> "unlock", arg |-> PersistedPassphrase, res |-> "true"]
    /\ created = PersistedPassphrase
    /\ nCalls = 0
    /\ EngineIdle
    /\ BackupIdle
    /\ now = UnlockTime
    /\ lastActivity = UnlockTime
    /\ lastEvent = 0
    /\ nextTick = UnlockTime + POLL_INTERVAL
    /\ CallIdle
    /\ LimiterIdle

\* time passes; the interval's callback runs when it is due
passTime ==
    /\ nextTick # NoTimer
    /\ now < nextTick
    /\ now < MaxTime
    /\ now' = now + 1
    /\ UNCHANGED <<lastActivity, lastEvent, nextTick>>
    /\ UNCHANGED <<vaultVars, engineVars, backupVars, callVars, limiterVars>>

NextAutoLock ==
    \/ passTime
    \/ markActivity
    \/ autoLockTick
    \/ \E s \in AutoLockChoices : saveSettings(s)

\* an unlocked session with user activity and changes of the settings
SpecAutoLock == InitAutoLock /\ [][NextAutoLock]_vars

\* ------------------------------------------- calls of normalizePersisted
\* the values a persisted item can parse or decrypt to
PlainValues ==
    {List(<<>>), List(<<1>>), List(<<2>>), Malformed, OtherObject, BadSettings,
     Settings("FIFO"), Settings("HIFO")}

RawValues ==
    PlainValues
      \cup {Versioned(sv, data) : sv \in {0, 1, 2}, data \in PlainValues}
      \cup {Versioned(1, Versioned(1, List(<<1>>)))}

InitNormalize ==
    /\ VaultFresh
    /\ EngineIdle
    /\ BackupIdle
    /\ TimerIdle
    /\ LimiterIdle
    /\ callArgs \in [f : {"normalizePersisted"}, key : KnownSchemaKeys,
                     rawValue : RawValues]
    /\ callResult = NoResult

NextNormalize == callNormalizePersisted

\* normalizePersisted on every kind and raw value
SpecNormalize == InitNormalize /\ [][NextNormalize]_vars

\* ------------------------------------------------ migration of legacy items
\* a list an earlier version of the application stored as plaintext JSON
LegacyList == List(<<2>>)

\* what a key can hold when the session starts
LegacyStates == [EncryptedKeySet -> {LandedBlob, UndecryptableBlob, Json(LegacyList)}]

InitLegacy ==
    /\ \E st \in LegacyStates :
         localStorage = [k \in StorageKeySet |->
            IF k \in EncryptedKeySet THEN st[k]
            ELSE IF k = VAULT_META_KEY THEN Json(PersistedMeta)
            ELSE IF k = VAULT_CHECK_KEY THEN encrypt(Sentinel(TRUE), PersistedKey)
            ELSE Null]
    /\ _vault = Null
    /\ _secureCache = EmptyCache
    /\ vault = Null
    /\ error = NoError
    /\ creating = {}
    /\ unlocking = Idle
    /\ encrypting = {}
    /\ ret = [op |-> "none", arg |-> "", res |-> "ok"]
    /\ created = PersistedPassphrase
    /\ nCalls = 0
    /\ EngineIdle
    /\ BackupIdle
    /\ OtherIdle

NextLegacy ==
    \/ Settled /\ VaultGateCanSubmit /\ \E p \in Passphrases : unlock(p)
    \/ unlockDerived
    \/ unlockChecked
    \/ initDecrypted
    \/ Settled /\ lock
    \/ Settled /\ setSecureData(WALLETS, List(<<1>>))
    \/ \E t \in encrypting : encryptDone(t)

\* A later session whose calls are awaited; the promises of crypto.subtle
\* (key derivation, decryption, encryption) are settled by the event loop
SpecLegacy ==
    /\ InitLegacy
    /\ [][NextLegacy]_vars
    /\ WF_vars(unlockDerived)
    /\ WF_vars(unlockChecked)
    /\ WF_vars(initDecrypted)
    /\ WF_vars(\E t \in encrypting : encryptDone(t))

\* the same session with lock called at any moment
NextLegacyLock == NextLegacy \/ lock

SpecLegacyLock ==
    /\ InitLegacy
    /\ [][NextLegacyLock]_vars
    /\ WF_vars(unlockDerived)
    /\ WF_vars(unlockChecked)
    /\ WF_vars(initDecrypted)
    /\ WF_vars(\E t \in encrypting : encryptDone(t))

\* --------------------------------------- calls of calculateUnrealizedGains
\* Money is counted in thousandths of a euro: the 0.01 of the sanity check
MIN_COST_BASIS == 10

\* currentPrices[asset] || currentPrices[asset.toUpperCase()] || 0, a missing
\* price being a price of 0
priceOf(currentPrices, asset) ==
    IF currentPrices[asset] # 0 THEN currentPrices[asset]
    ELSE currentPrices[toUpperCase(asset)]

\* faulty variant: only a cost basis of exactly 0 counts as unknown
gainOf_ZeroOnly(data, currentValue) ==
    IF data.costBasis = 0 THEN 0
    ELSE IF currentValue - data.costBasis > currentValue
         THEN (currentValue * 5) \div 10
         ELSE currentValue - data.costBasis

\* unrealizedGainLoss of one asset after the sanity checks
gainOf(data, currentValue) ==
    IF data.costBasis = 0 \/ data.costBasis < MIN_COST_BASIS THEN 0
    ELSE IF currentValue - data.costBasis > currentValue
         THEN (currentValue * 5) \div 10
         ELSE currentValue - data.costBasis

\* the loop over Object.entries(unrealizedGains), from the totals `acc`
RECURSIVE gainsLoop(_, _, _)
gainsLoop(entries, currentPrices, acc) ==
    IF entries = <<>> THEN acc
    ELSE LET data == Head(entries)
             currentValue == data.amount * priceOf(currentPrices, data.asset)
             unrealizedGainLoss == gainOf(data, currentValue)
         IN  gainsLoop(Tail(entries), currentPrices,
                 [totalUnrealizedGain |->
                      IF unrealizedGainLoss > 0
                      THEN acc.totalUnrealizedGain + unrealizedGainLoss
                      ELSE acc.totalUnrealizedGain,
                  totalUnrealizedLoss |->
                      IF unrealizedGainLoss > 0
                      THEN acc.totalUnrealizedLoss
                      ELSE acc.totalUnrealizedLoss + abs(unrealizedGainLoss),
                  byAsset |-> acc.byAsset \cup
                      {[asset |-> data.asset,
                        amount |-> data.amount,
                        costBasis |-> data.costBasis,
                        currentValue |-> currentValue,
                        unrealizedGainLoss |-> unrealizedGainLoss]}])

calculateUnrealizedGains(entries, currentPrices) ==
    gainsLoop(entries, currentPrices,
              [totalUnrealizedGain |-> 0, totalUnrealizedLoss |-> 0, byAsset |-> {}])

\* the call calculateUnrealizedGains(callArgs.held, callArgs.currentPrices)
callUnrealizedGains ==
    /\ callResult = NoResult
    /\ "held" \in DOMAIN callArgs
    /\ callResult' = calculateUnrealizedGains(callArgs.held, callArgs.currentPrices)
    /\ UNCHANGED callArgs
    /\ UNCHANGED <<vaultVars, engineVars, backupVars, timerVars, limiterVars>>

\* a held position of one asset
HeldEntries(asset) ==
    [asset : {asset}, amount : {1, 3}, costBasis : {-5, 0, 9, 10, 3000, 8000}]

\* up to two held assets, in the order of Object.entries
HeldRecords ==
    {<<e>> : e \in HeldEntries("BTC") \cup HeldEntries("eth")}
      \cup {<<e1, e2>> : e1 \in HeldEntries("BTC"), e2 \in HeldEntries("eth")}
      \cup {<<e2, e1>> : e1 \in HeldEntries("BTC"), e2 \in HeldEntries("eth")}

\* price tables; 0 stands for a missing entry
PriceTables ==
    {[a \in {"BTC", "ETH", "eth"} |->
         IF a = "BTC" THEN b ELSE IF a = "ETH" THEN e ELSE l] :
       b \in {0, 2000, 6000}, e \in {0, 4000}, l \in {0, 1000}}

InitUnrealized ==
    /\ VaultFresh
    /\ EngineIdle
    /\ BackupIdle
    /\ TimerIdle
    /\ LimiterIdle
    /\ callArgs \in [f : {"calculateUnrealizedGains"}, held : HeldRecords,
                     currentPrices : PriceTables]
    /\ callResult = NoResult

NextUnrealized == callUnrealizedGains

\* calculateUnrealizedGains on every held record and price table
SpecUnrealized == InitUnrealized /\ [][NextUnrealized]_vars

\* ------------------------------------------------- requests to the limiter
MaxRequests == 2

InitLimiter ==
    /\ VaultFresh
    /\ EngineIdle
    /\ BackupIdle
    /\ TimerIdle
    /\ CallIdle
    /\ queue = <<>>
    /\ processing = FALSE
    /\ queueLoop = LoopIdle
    /\ cooling = FALSE
    /\ requests = [id \in 1..MaxRequests |-> NewRequest]

NextLimiter ==
    \/ \E id \in 1..MaxRequests, skipQueue \in BOOLEAN : enqueue(id, skipQueue)
    \/ processQueue
    \/ \E id \in 1..MaxRequests : throttleDone(id)
    \/ delayPasses
    \/ \E id \in 1..MaxRequests, outcome \in Outcomes : executeDone(id, outcome)
    \/ \E id \in 1..MaxRequests : backoffDone(id)
    \/ clearQueue

\* Requests arrive at any moment; timers fire, executions settle and promise
\* continuations run
SpecLimiter ==
    /\ InitLimiter
    /\ [][NextLimiter]_vars
    /\ WF_vars(processQueue)
    /\ WF_vars(\E id \in 1..MaxRequests : throttleDone(id))
    /\ WF_vars(delayPasses)
    /\ WF_vars(\E id \in 1..MaxRequests, outcome \in Outcomes : executeDone(id, outcome))
    /\ WF_vars(\E id \in 1..MaxRequests : backoffDone(id))

\* ------------------------------------------------------ cost-basis claims
\* amounts of the asset acquired / sold by the first k sorted transactions
acquiredUpTo(asset, k) ==
    sumSeq([i \in 1..k |-> IF isAcquisition(sortedTx[i])
                              /\ toUpperCase(sortedTx[i].asset) = asset
                           THEN sortedTx[i].amount ELSE 0])

soldUpTo(asset, k) ==
    sumSeq([i \in 1..k |-> IF sortedTx[i].type = "sell"
                              /\ toUpperCase(sortedTx[i].asset) = asset
                           THEN sortedTx[i].amount ELSE 0])

\* no sale of the asset exceeds the amount held at its time
noOverSell(asset) ==
    \A k \in 1..Len(sortedTx) :
        (sortedTx[k].type = "sell" /\ toUpperCase(sortedTx[k].asset) = asset)
            => sortedTx[k].amount <= acquiredUpTo(asset, k - 1) - soldUpTo(asset, k - 1)

remainingOf(lots, asset) ==
    sumSeq([i \in 1..Len(lots) |-> IF lots[i].asset = asset
                                   THEN lots[i].remainingAmount ELSE 0])

HeldAssets == {"BTC", "ETH"}

\* C11: lot conservation.  For every method and every history of a single
\* asset in which no sale exceeds the amount held at its time, the remaining
\* amounts of the returned lots add up to the amount acquired minus the
\* amount sold.
C11_LotConservation ==
    result # NoResult =>
        \A asset \in HeldAssets :
            ( /\ \A i \in 1..Len(sortedTx) : toUpperCase(sortedTx[i].asset) = asset
              /\ noOverSell(asset) ) =>
                remainingOf(result.lots, asset)
                    = acquiredUpTo(asset, Len(sortedTx)) - soldUpTo(asset, Len(sortedTx))

\* C12: for every lot, remainingAmount never increases from one processed
\* transaction to the next, is never negative and never exceeds the lot's
\* amount.
C12_RemainingMonotone ==
    /\ [](\A e \in 1..Len(lotsByAsset) : \A i \in 1..Len(lotsByAsset[e].lots) :
            /\ lotsByAsset[e].lots[i].remainingAmount >= 0
            /\ lotsByAsset[e].lots[i].remainingAmount <= lotsByAsset[e].lots[i].amount)
    /\ [][ pos' = pos + 1 =>
             \A asset \in HeldAssets :
                \A i \in 1..Len(lotsOf(lotsByAsset, asset)) :
                    lotsOf(lotsByAsset', asset)[i].remainingAmount
                        <= lotsOf(lotsByAsset, asset)[i].remainingAmount ]_vars

\* the step processes a sale: the transaction, the asset's lots before it and
\* the SaleResult it pushes
saleTx == sortedTx[pos + 1]
saleLots == lotsOf(lotsByAsset, toUpperCase(saleTx.asset))
isSaleStep == pos < Len(sortedTx) /\ pos' = pos + 1 /\ saleTx.type = "sell"

\* the orders of the available lots that the method allows (ties in any order)
methodKey(lot) ==
    CASE method = "LIFO" -> 0 - lot.timestamp
      [] method = "HIFO" -> 0 - lot.costPerUnit
      [] OTHER -> lot.timestamp

methodOrders(lots) ==
    LET available == {i \in 1..Len(lots) : lots[i].remainingAmount > 0}
        n == Cardinality(available)
    IN  { o \in [1..n -> available] :
            /\ \A a, b \in 1..n : o[a] = o[b] => a = b
            /\ \A a, b \in 1..n : a < b => methodKey(lots[o[a]]) <= methodKey(lots[o[b]]) }

\* C13: method ordering.  The lots a sale consumes are a prefix of the asset's
\* available lots in the method's order, every consumed lot but the last
\* wholly consumed, and lots are consumed until the sold amount is satisfied
\* or the lots are exhausted.
C13_MethodOrdering ==
    [][ isSaleStep =>
          LET used == sales'[Len(sales')].lotsUsed
              total == remainingOf(saleLots, toUpperCase(saleTx.asset))
          IN  /\ \E o \in methodOrders(saleLots) :
                    /\ Len(used) <= Len(o)
                    /\ \A k \in 1..Len(used) :
                          /\ used[k].lotId = saleLots[o[k]].id
                          /\ used[k].costPerUnit = saleLots[o[k]].costPerUnit
                          /\ used[k].amountUsed > 0
                          /\ used[k].amountUsed <= saleLots[o[k]].remainingAmount
                          /\ k < Len(used)
                               => used[k].amountUsed = saleLots[o[k]].remainingAmount
              /\ sumSeq([k \in 1..Len(used) |-> used[k].amountUsed])
                    = Min(saleTx.amount, total) ]_vars

\* C14: over-sell.  When a sale exceeds what the asset's lots hold, all of the
\* asset's lots end at 0, the amount consumed is the amount that was held, the
\* cost basis is the cost of the consumed lots only and gainLoss is the
\* proceeds minus the cost basis.
C14_OverSell ==
    [][ (isSaleStep /\ saleTx.amount > remainingOf(saleLots, toUpperCase(saleTx.asset)))
          => LET sale == sales'[Len(sales')]
                 used == sale.lotsUsed
                 after == lotsOf(lotsByAsset', toUpperCase(saleTx.asset))
             IN  /\ \A i \in 1..Len(after) : after[i].remainingAmount = 0
                 /\ sumSeq([k \in 1..Len(used) |-> used[k].amountUsed])
                       = remainingOf(saleLots, toUpperCase(saleTx.asset))
                 /\ sale.costBasis
                       = sumSeq([k \in 1..Len(used) |->
                                    used[k].amountUsed * used[k].costPerUnit])
                 /\ sale.gainLoss = saleTx.valueEur - sale.costBasis ]_vars

\* C15: gains and losses are accumulated separately.  In every returned
\* result totalGains is the sum of the positive gainLoss values, totalLosses
\* the sum of the negated negative ones, neither is negative, and netGain is
\* totalGains - totalLosses and the sum of gainLoss over all sales.
C15_GainsLossesSeparate ==
    result # NoResult =>
        LET s == result.sales
            gains == sumSeq([i \in 1..Len(s) |->
                                IF s[i].gainLoss > 0 THEN s[i].gainLoss ELSE 0])
            losses == sumSeq([i \in 1..Len(s) |->
                                IF s[i].gainLoss < 0 THEN 0 - s[i].gainLoss ELSE 0])
        IN  /\ result.totalGains = gains
            /\ result.totalLosses = losses
            /\ result.totalGains >= 0
            /\ result.totalLosses >= 0
            /\ result.netGain = result.totalGains - result.totalLosses
            /\ result.netGain = sumSeq([i \in 1..Len(s) |-> s[i].gainLoss])

\* a result with a sale at a gain and a sale at a loss
C15_Witness ==
    /\ result # NoResult
    /\ \E i \in 1..Len(result.sales) : result.sales[i].gainLoss > 0
    /\ \E i \in 1..Len(result.sales) : result.sales[i].gainLoss < 0

\* C16: year-filter idempotence.  filterTaxResultsByYear applied, with the
\* same year, to what filterTaxResultsByYear returned yields the same
\* totalGains, totalLosses, netGain and taxable events.
C16_YearFilterIdempotent ==
    [][ (filterCalls = 1 /\ filterCalls' = 2) => yearResult' = yearResult ]_vars

\* C17: determinism of the tax engine.  Two calls of calculateCostBasis with
\* the same transactions and method return results equal in every field, lot
\* identifiers included, and no step of a call changes the input
\* transactions.
C17_Deterministic ==
    /\ []((previous # NoResult /\ result # NoResult) => result = previous)
    /\ [][transactions' = transactions]_vars

DeviceKey == PersistedKey

\* a step of createEncryptedBackup, restoreEncryptedBackup or applyBackup
isBackupStep == backupVars' # backupVars

isBackupFileText(text) == text.t = "json" /\ encryptedBackupFileSchema(text.val)

\* C20: invalid backup file.  restoreEncryptedBackup of a text that is not a
\* structurally valid backup file fails with the invalid-backup-file error,
\* before any decryption is started, and changes neither the storage cache
\* nor any persisted entry.
C20_InvalidBackupFile ==
    /\ [](\A r \in restoring : isBackupFileText(r.text))
    /\ [][ (restored' # restored /\ ~isBackupFileText(restored'.text))
              => /\ restored'.st = "threw"
                 /\ restored'.err = "File di backup non valido o corrotto"
                 /\ restoring' = restoring
                 /\ _secureCache' = _secureCache
                 /\ localStorage' = localStorage ]_vars

\* ----------------------------------------------------------- later claims
\* the stored settings (an item is stored throughout a SpecAutoLock session)
storedSettings == localStorage[SETTINGS].val.data

\* the interval's callback runs in this step
isTickStep == nextTick # NoTimer /\ now = nextTick /\ nextTick' # nextTick

\* C21: auto-lock bounded response.  A poll tick is never late; at a tick
\* with auto-lock enabled and the idle time at or above the threshold the
\* vault is locked and the key and cache are cleared; at every other tick,
\* and at every tick while auto-lock is disabled, the timer does not lock.
C21_AutoLock ==
    /\ [](nextTick # NoTimer => now <= nextTick)
    /\ [][ isTickStep =>
             IF storedSettings.autoLockEnabled
                /\ storedSettings.autoLockMinutes >= 1
                /\ now - lastActivity >= storedSettings.autoLockMinutes * MINUTE
             THEN /\ vault' = Null
                  /\ _vault' = Null
                  /\ _secureCache' = EmptyCache
             ELSE /\ vault' = vault
                  /\ _vault' = _vault
                  /\ _secureCache' = _secureCache ]_vars

\* the timer has locked a session with a threshold of two minutes in which
\* activity was recorded after the unlock
C21_Witness ==
    /\ nextTick = NoTimer
    /\ _vault = Null
    /\ vault = Null
    /\ storedSettings.autoLockEnabled
    /\ storedSettings.autoLockMinutes = 2
    /\ lastActivity > UnlockTime
    /\ now - lastActivity >= 2 * MINUTE
    /\ now - lastActivity < 2 * MINUTE + POLL_INTERVAL

\* C22: normalizePersisted never fails; for every kind and raw value it
\* returns the validated data when the raw value (or the data of a versioned
\* wrapper) passes the kind's validator and the kind's default otherwise, and
\* shouldPersist is false exactly for a wrapper of the kind's current
\* version whose data is valid.
C22_Normalize ==
    (callArgs.f = "normalizePersisted" /\ callResult # NoResult) =>
        LET key == callArgs.key
            raw == callArgs.rawValue
            wrapper == raw.j = "versioned"
            candidate == IF wrapper THEN raw.data ELSE raw
            valid == IF key = SETTINGS THEN candidate.j # "badsettings"
                     ELSE candidate.j = "list"
            validated == IF key = SETTINGS /\ candidate.j # "settings"
                         THEN Settings("FIFO") ELSE candidate
            default == IF key = SETTINGS THEN Settings("FIFO") ELSE List(<<>>)
        IN /\ callResult.data = IF valid THEN validated ELSE default
           /\ callResult.shouldPersist
                = ~(wrapper /\ raw.schemaVersion = 1 /\ valid)

\* an old wrapper of a valid wallet list was normalized
C22_Witness ==
    /\ callArgs.f = "normalizePersisted"
    /\ callArgs.key = WALLETS
    /\ callArgs.rawValue = Versioned(0, List(<<1>>))
    /\ callResult = [data |-> List(<<1>>), shouldPersist |-> TRUE]

\* unlock is about to call initializeSecureStorage: the sentinel decrypts
\* under the passphrase given
initializeStarts ==
    /\ unlocking.pc = "check"
    /\ decrypt(unlocking.payload,
               deriveAesKey(unlocking.pass, unlocking.meta)).ok

\* unlock returns true: initializeSecureStorage has completed
isInitializeDone ==
    /\ unlocking # Idle
    /\ unlocking' = Idle
    /\ ret' = [op |-> "unlock", arg |-> unlocking.pass, res |-> "true"]

\* C23: if at initialize an encrypted-category key holds schema-valid legacy
\* plaintext JSON, the data is in the cache when initialize completes, and
\* eventually the persisted blob of the key is a payload that decrypts under
\* the vault key to the versioned wrapper of the same data.
C23_LegacyMigration ==
    /\ [][ isInitializeDone =>
             \A k \in EncryptedKeySet :
                 localStorage[k] = Json(LegacyList)
                     => _secureCache'[k] = LegacyList ]_vars
    /\ \A k \in EncryptedKeySet :
          (initializeStarts /\ localStorage[k] = Json(LegacyList))
             ~> (localStorage[k]
                   = encrypt(Versioned(SCHEMA_VERSION, LegacyList), PersistedKey))

\* a legacy transaction list has been migrated and is in the cache
C23_Witness ==
    /\ isUnlocked
    /\ _secureCache[TRANSACTIONS] = LegacyList
    /\ localStorage[TRANSACTIONS]
          = encrypt(Versioned(SCHEMA_VERSION, LegacyList), PersistedKey)

\* the entry of the held record for an asset
heldEntry(asset) ==
    CHOOSE e \in {callArgs.held[i] : i \in 1..Len(callArgs.held)} : e.asset = asset

\* C24: for each held asset with amount a, cost basis c and price p the
\* report has currentValue = a * p and unrealizedGainLoss = 0 when c < 0.01,
\* else 0.5 * currentValue when currentValue - c exceeds currentValue, else
\* currentValue - c; positive results add up to totalUnrealizedGain and the
\* absolute values of the others to totalUnrealizedLoss.
C24_UnrealizedGains ==
    (callArgs.f = "calculateUnrealizedGains" /\ callResult # NoResult) =>
        LET p(asset) ==
                IF callArgs.currentPrices[asset] # 0
                THEN callArgs.currentPrices[asset]
                ELSE callArgs.currentPrices[toUpperCase(asset)]
            cv(e) == e.amount * p(e.asset)
            expected(e) ==
                IF e.costBasis < 10 THEN 0
                ELSE IF cv(e) - e.costBasis > cv(e) THEN cv(e) \div 2
                ELSE cv(e) - e.costBasis
            held == callArgs.held
            gains == [i \in 1..Len(held) |->
                        IF expected(held[i]) > 0 THEN expected(held[i]) ELSE 0]
            losses == [i \in 1..Len(held) |->
                         IF expected(held[i]) < 0 THEN 0 - expected(held[i]) ELSE 0]
        IN /\ {r.asset : r \in callResult.byAsset}
                = {held[i].asset : i \in 1..Len(held)}
           /\ \A r \in callResult.byAsset :
                /\ r.amount = heldEntry(r.asset).amount
                /\ r.costBasis = heldEntry(r.asset).costBasis
                /\ r.currentValue = cv(heldEntry(r.asset))
                /\ r.unrealizedGainLoss = expected(heldEntry(r.asset))
           /\ callResult.totalUnrealizedGain = sumSeq(gains)
           /\ callResult.totalUnrealizedLoss = sumSeq(losses)

\* an asset with a loss and one with a cost basis under 0.01 were reported
C24_Witness ==
    /\ callArgs.f = "calculateUnrealizedGains"
    /\ callResult # NoResult
    /\ callResult.totalUnrealizedLoss > 0
    /\ \E r \in callResult.byAsset :
          r.costBasis = 9 /\ r.currentValue > 0 /\ r.unrealizedGainLoss = 0

\* what a lot records of the transaction that created it
lotOrigin(lot) ==
    [hash |-> lot.txHash, asset |-> lot.asset, amount |-> lot.amount,
     cost |-> lot.costPerUnit * lot.amount, timestamp |-> lot.timestamp]

\* the same of an acquisition of the input
txOrigin(tx) ==
    [hash |-> tx.hash, asset |-> toUpperCase(tx.asset), amount |-> tx.amount,
     cost |-> tx.valueEur, timestamp |-> normalizeTimestamp(tx.timestamp)]

\* the step processes a stake transaction
isStakeStep ==
    /\ pos < Len(sortedTx)
    /\ pos' = pos + 1
    /\ sortedTx[pos + 1].type = "stake"

\* C25: the returned lots are in one-to-one correspondence with the buy,
\* airdrop and transfer transactions, each lot with amount = tx.amount and
\* costPerUnit = valueEur / amount (0 when valueEur is 0); a stake
\* transaction creates no lot, changes no lot and produces no sale.
C25_LotsFromAcquisitions ==
    /\ [](result # NoResult =>
            LET acquired == {i \in 1..Len(transactions) :
                               transactions[i].type \in {"buy", "airdrop", "transfer"}}
                lots == result.lots
            IN /\ Len(lots) = Cardinality(acquired)
               /\ \A i \in acquired :
                    Cardinality({j \in 1..Len(lots) :
                                   lotOrigin(lots[j]) = txOrigin(transactions[i])})
                      = Cardinality({j \in acquired :
                                   txOrigin(transactions[j]) = txOrigin(transactions[i])})
               /\ \A j \in 1..Len(lots) :
                    lots[j].totalCost = 0 => lots[j].costPerUnit = 0)
    /\ [][ isStakeStep =>
             /\ lotsByAsset' = lotsByAsset
             /\ sales' = sales
             /\ totalGains' = totalGains
             /\ totalLosses' = totalLosses ]_vars

\* a history with a stake, a priced buy of two units and an unpriced transfer
C25_Witness ==
    /\ result # NoResult
    /\ \E i \in 1..Len(transactions) : transactions[i].type = "stake"
    /\ Len(result.lots) = 2
    /\ \E j \in 1..2 : result.lots[j].amount = 2 /\ result.lots[j].costPerUnit = 30
    /\ \E j \in 1..2 : result.lots[j].txHash = "0xa1" /\ result.lots[j].costPerUnit = 0

\* the step is a createVault call with a passphrase of fewer than 8 characters
isWeakCreateStep ==
    /\ nCalls' = nCalls + 1
    /\ ret'.op = "createVault"
    /\ Len(ret'.arg) < 8

\* C26: createVault with a passphrase of fewer than 8 characters (or empty)
\* fails and persists neither a vault meta nor a sentinel, leaving the
\* persisted vault state unchanged.
C26_WeakPassphrase ==
    /\ [](\A c \in creating : Len(c.pass) >= 8)
    /\ [][ isWeakCreateStep =>
             /\ ret'.res = "Error"
             /\ localStorage' = localStorage
             /\ creating' = creating ]_vars

\* the empty passphrase was rejected on a device that has a vault
C26_Witness ==
    /\ ret = [op |-> "createVault", arg |-> "", res |-> "Error"]
    /\ localStorage[VAULT_META_KEY] # Null
    /\ localStorage[VAULT_CHECK_KEY] # Null

\* the request has been given to enqueue / its promise is settled
isEnqueued(id) == requests[id].st # "none"
isSettled(id) == requests[id].st \in {"resolved", "rejected"}

\* C27: every request passed to enqueue, with or without skipQueue, is
\* eventually resolved or rejected; a request whose execution fails with a
\* rate-limit error is executed again at most maxRetries times, re-inserted
\* at the front of the queue after its backoff, and rejected once the
\* retries are exhausted; any other error rejects it immediately.
C27_Settlement ==
    /\ \A id \in 1..MaxRequests : isEnqueued(id) ~> isSettled(id)
    /\ [](\A id \in 1..MaxRequests : requests[id].executions <= 1 + MAX_RETRIES)
    /\ [][ \A id \in 1..MaxRequests :
             /\ (requests[id].st = "backoff" /\ requests'[id].st # "backoff")
                   => (queue' # <<>> /\ Head(queue') = id)
             /\ (requests[id].st = "executing" /\ requests'[id].st # "executing")
                   => requests'[id].st =
                        CASE requests'[id].outcome = "ok" -> "resolved"
                          [] requests'[id].outcome = "other" -> "rejected"
                          [] requests'[id].outcome = "429" ->
                               IF requests[id].executions <= MAX_RETRIES
                               THEN "backoff" ELSE "rejected" ]_vars

\* the step is a successful saveWallet (or saveTransaction) under `key`
isSaveStep(key) ==
    /\ nCalls' = nCalls + 1
    /\ ret' = [op |-> "save", arg |-> key, res |-> "ok"]

\* the items saved under `key` so far in this session
savedItems(key) == IF _secureCache[key] = Absent THEN <<>> ELSE _secureCache[key].items

\* C28: while the vault is unlocked and nothing is deleted, after a
\* saveWallet (saveTransaction) a getWallets (getTransactions) returns every
\* item saved so far and the new one, each once, whichever encryptions have
\* completed and whether or not a blob was persisted before.
C28_NoLostUpdate ==
    [][ \A key \in WriteKeys :
          isSaveStep(key) =>
              /\ ~getSecureData(key)'.threw
              /\ getSecureData(key)'.value.items
                    = Append(savedItems(key), FirstId + nCalls) ]_vars

\* C29: in every reachable state in which the storage layer holds no vault
\* key, the plaintext cache is empty and isUnlocked is false, also when lock
\* runs while initializeSecureStorage awaits a decryption.
C29_LockedImpliesEmpty ==
    _vault = Null => (_secureCache = EmptyCache /\ ~isUnlocked)

\* C30: for every sale and every method, each lot in the sale's lotsUsed
\* belongs to the sale's asset (symbols compared in upper case) and has a
\* normalized timestamp not later than the sale's, whatever the order of the
\* input; the lots of other assets are left unchanged by the sale.
C30_EligibleLots ==
    [][ isSaleStep =>
          LET sale == sales'[Len(sales')]
              asset == toUpperCase(sale.transaction.asset)
          IN  /\ \A k \in 1..Len(sale.lotsUsed) :
                    /\ \E i \in 1..Len(saleLots) :
                          saleLots[i].id = sale.lotsUsed[k].lotId
                    /\ \A e \in 1..Len(lotsByAsset) :
                       \A i \in 1..Len(lotsByAsset[e].lots) :
                          lotsByAsset[e].lots[i].id = sale.lotsUsed[k].lotId =>
                              /\ lotsByAsset[e].asset = asset
                              /\ lotsByAsset[e].lots[i].asset = asset
                              /\ lotsByAsset[e].lots[i].timestamp
                                    <= sale.transaction.timestamp
              /\ Len(lotsByAsset') = Len(lotsByAsset)
              /\ \A e \in 1..Len(lotsByAsset) :
                    lotsByAsset[e].asset # asset => lotsByAsset'[e] = lotsByAsset[e] ]_vars

\* a sale listed first in the input consumed a lot while another asset was held
C30_Witness ==
    /\ result # NoResult
    /\ transactions[1].type = "sell"
    /\ Len(lotsByAsset) = 2
    /\ sales # <<>>
    /\ sales[1].lotsUsed # <<>>

====
